---- MODULE Spec2Model ----
(***************************************************************************)
(* A model of llm-probe's evaluation and monitoring engine:                *)
(*   - PerformanceCollector  (src/performance/performance_collector.py)    *)
(*   - MetricsAggregator     (src/monitoring/metrics_aggregator.py)        *)
(*   - SummaryEvaluator      (src/evaluators/summary_evaluator.py) over    *)
(*     the text metrics      (src/metrics/text_similarity.py)              *)
(*                                                                         *)
(* Conventions.  An Optional value is a sequence of length 0 (None) or 1.  *)
(* Times are whole milliseconds.  A float that the code only ever adds,    *)
(* divides and compares is an exact rational <<numerator, denominator>>    *)
(* with a positive denominator; comparisons cross-multiply, so no rounding *)
(* is modelled.  Each component has its own specification; the variables   *)
(* of the other components keep their initial values there.                *)
(***************************************************************************)
EXTENDS Integers, Sequences, FiniteSets, TLC

VARIABLES
    metrics,          \* PerformanceCollector._metrics: the finalized list
    active_requests,  \* PerformanceCollector._active_requests: id -> metric
    request_counter,  \* PerformanceCollector._request_counter
    now,              \* the reading time.time() * 1000 returns
    handles,          \* history variable: request id of every RequestHandle issued
    endCount,         \* history variable: successful end() calls per handle
    history_file,     \* MetricsAggregator: content of test-history.json
    thresholds,       \* MetricsAggregator.thresholds
    recorded,         \* history variable: runs recorded since the store was empty
    candidate,        \* SummaryEvaluator.evaluate: the summary argument
    test_case,        \* SummaryEvaluator.evaluate: the test_case argument
    sample,           \* PerformanceCollector._percentile: the sorted_values argument
    percent,          \* PerformanceCollector._percentile: the p argument
    threads,          \* position and local variables of each concurrent caller
    op,               \* the operation the last step performed
    result            \* what that operation returned or raised

vars == <<metrics, active_requests, request_counter, now, handles, endCount,
          history_file, thresholds, recorded, candidate, test_case,
          sample, percent, threads, op, result>>

collectorVars == <<metrics, active_requests, request_counter, now, handles, endCount>>
aggregatorVars == <<history_file, thresholds, recorded>>
evaluatorVars == <<candidate, test_case>>
percentileVars == <<sample, percent>>

(***************************************************************************)
(* Helpers                                                                 *)
(***************************************************************************)
None == <<>>
Some(v) == <<v>>

Min(a, b) == IF a <= b THEN a ELSE b
Max(a, b) == IF a >= b THEN a ELSE b

RECURSIVE SumSeq(_)
SumSeq(s) == IF s = <<>> THEN 0 ELSE Head(s) + SumSeq(Tail(s))

\* [f(x) for x in s]
MapSeq(s, F(_)) == [i \in 1..Len(s) |-> F(s[i])]

\* rationals <<n, d>>, d > 0
RLess(a, b) == a[1] * b[2] < b[1] * a[2]
RLeq(a, b) == a[1] * b[2] <= b[1] * a[2]
REq(a, b) == a[1] * b[2] = b[1] * a[2]
RSub(a, b) == <<a[1] * b[2] - b[1] * a[2], a[2] * b[2]>>
RNeg(a) == <<0 - a[1], a[2]>>
\* a / b for b > 0
RDiv(a, b) == <<a[1] * b[2], a[2] * b[1]>>
RTimes(a, k) == <<a[1] * k, a[2]>>

\* the outcome of an operation: a returned value or a raised error
NoResult == [kind |-> "none"]
Returned(v) == [kind |-> "returned", value |-> v]
Raised(type, msg) == [kind |-> "raised", type |-> type, msg |-> msg]

\* the value a query returned, with the argument of the call
ReturnedFor(arg, v) == [kind |-> "returned", value |-> v, arg |-> arg]

NoId == <<0, 0>>
Op(name, id) == [name |-> name, id |-> id]

(***************************************************************************)
(* PerformanceCollector                                                    *)
(***************************************************************************)
MaxHandles == 2   \* start_request calls explored
MaxMetrics == 1   \* record_metric is explored while the list is shorter
MaxClock == 1     \* clock readings 0..MaxClock

\* a dict as a function; {} is the empty function
EmptyDict == <<>>
DictSet(d, k, v) == [x \in (DOMAIN d) \cup {k} |-> IF x = k THEN v ELSE d[x]]
\* _end_request without the del of line 225
DictKeep(d, k) == d
DictDel(d, k) == [x \in (DOMAIN d) \ {k} |-> d[x]]

\* MODEL_PRICING, dollars per 1M tokens (two of its rows)
MODEL_PRICING ==
    [m \in {"llama3.1:8b", "gpt-4"} |->
        IF m = "gpt-4" THEN [input |-> 30, output |-> 60]
                       ELSE [input |-> 0, output |-> 0]]

\* the (usage, error) arguments end() is called with: nothing; a TokenUsage
\* and the empty error text; an error text
EndArguments ==
    { <<None, None>>,
      <<Some([input_tokens |-> 100, output_tokens |-> 50, model |-> "gpt-4"]), Some("")>>,
      <<None, Some("timeout")>> }

\* _calculate_cost, in millionths of a dollar (tokens * dollars per 1M tokens)
calculate_cost(usage) ==
    IF usage.model \notin DOMAIN MODEL_PRICING
    THEN 0
    ELSE usage.input_tokens * MODEL_PRICING[usage.model].input
         + usage.output_tokens * MODEL_PRICING[usage.model].output

\* PerformanceMetric(request_id=..., start_time=..., success=True)
NewMetric(request_id, start_time) ==
    [request_id |-> request_id, start_time |-> start_time, end_time |-> None,
     latency |-> None, input_tokens |-> None, output_tokens |-> None,
     total_tokens |-> None, model |-> None, cost |-> None,
     success |-> TRUE, error |-> None]

\* Python truthiness of an Optional[str]: None and "" are falsy
Truthy(opt) == opt # None /\ opt[1] # ""

\* lines 210-222 of _end_request: the metric as it is finalized at time t
FinalizedMetric(metric, t, usage, error) ==
    LET m1 == [metric EXCEPT !.end_time = Some(t),
                             !.latency = Some(t - metric.start_time)]
        m2 == IF Truthy(error)
              THEN [m1 EXCEPT !.success = FALSE, !.error = error]
              ELSE m1
    IN  IF usage # None
        THEN [m2 EXCEPT !.input_tokens = Some(usage[1].input_tokens),
                        !.output_tokens = Some(usage[1].output_tokens),
                        !.total_tokens = Some(usage[1].input_tokens + usage[1].output_tokens),
                        !.model = Some(usage[1].model),
                        !.cost = Some(calculate_cost(usage[1]))]
        ELSE m2

\* raise ValueError(f"Request {request_id} not found")
NotFound == Raised("ValueError", "Request not found")

\* start_request()
start_request ==
    /\ Len(handles) < MaxHandles
    /\ LET counter == request_counter + 1
           request_id == <<counter, now>>
       IN  /\ request_counter' = counter
           /\ active_requests' = DictSet(active_requests, request_id, NewMetric(request_id, now))
           /\ handles' = Append(handles, request_id)
           /\ endCount' = Append(endCount, 0)
           /\ op' = Op("start_request", request_id)
           /\ result' = Returned(request_id)
    /\ UNCHANGED <<metrics, now>>
    /\ UNCHANGED <<aggregatorVars, evaluatorVars, percentileVars, threads>>

\* _end_request(request_id, usage, error), called through handle number h
\* (h = 0: a handle this collector never issued)
end_request(h, request_id, usage, error) ==
    /\ op' = Op("end", request_id)
    /\ IF request_id \notin DOMAIN active_requests
       THEN /\ result' = NotFound
            /\ UNCHANGED <<metrics, active_requests, endCount>>
       ELSE /\ metrics' = Append(metrics,
                     FinalizedMetric(active_requests[request_id], now, usage, error))
            /\ active_requests' = DictDel(active_requests, request_id)
            /\ endCount' = [endCount EXCEPT ![h] = @ + 1]
            /\ result' = Returned(None)
    /\ UNCHANGED <<request_counter, now, handles>>
    /\ UNCHANGED <<aggregatorVars, evaluatorVars, percentileVars, threads>>

\* RequestHandle.end(usage, error) on an issued handle
handle_end ==
    \E h \in 1..Len(handles), args \in EndArguments :
        end_request(h, handles[h], args[1], args[2])

\* end() on a handle of another collector
ForeignId == <<0, 0>>
foreign_end ==
    /\ ForeignId \notin DOMAIN active_requests
    /\ end_request(0, ForeignId, None, None)

\* the complete metric handed to record_metric: a successful one that
\* carries no latency data
ManualMetrics == { NewMetric(NoId, 0) }

\* record_metric(metric)
record_metric ==
    /\ Len(metrics) < MaxMetrics
    /\ \E metric \in ManualMetrics :
          /\ metrics' = Append(metrics, metric)
          /\ op' = Op("record_metric", metric.request_id)
    /\ result' = Returned(None)
    /\ UNCHANGED <<active_requests, request_counter, now, handles, endCount>>
    /\ UNCHANGED <<aggregatorVars, evaluatorVars, percentileVars, threads>>

\* clear()
clear ==
    /\ metrics' = <<>>
    /\ active_requests' = EmptyDict
    /\ request_counter' = 0
    /\ op' = Op("clear", NoId)
    /\ result' = Returned(None)
    /\ UNCHANGED <<now, handles, endCount>>
    /\ UNCHANGED <<aggregatorVars, evaluatorVars, percentileVars, threads>>

\* _mean
mean(values) == IF Len(values) = 0 THEN <<0, 1>> ELSE <<SumSeq(values), Len(values)>>

(***************************************************************************)
(* The float arithmetic of _percentile, in IEEE 754 binary64 with rounding *)
(* to nearest, ties to even.  A float x >= 0 is <<<<h, m, l>>, e>>: its    *)
(* MANTISSA_BITS binary digits are held in three limbs of 18, 18 and 17    *)
(* digits, and it stands for (h * 2^35 + m * 2^17 + l) * 2^e, with         *)
(* h >= 2^17 unless x is 0.0.  Operands are integers below 2^13, which     *)
(* floats hold exactly.                                                    *)
(***************************************************************************)
MANTISSA_BITS == 53

RECURSIVE Pow2(_)
Pow2(k) == IF k = 0 THEN 1 ELSE 2 * Pow2(k - 1)

LimbBits == (MANTISSA_BITS + 1) \div 3
LimbBase == Pow2(LimbBits)
LowBits == MANTISSA_BITS - 2 * LimbBits
LowBase == Pow2(LowBits)
Zero64 == <<<<0, 0, 0>>, 0>>

RECURSIVE BitLength(_)
\* the number of binary digits of k >= 0
BitLength(k) == IF k = 0 THEN 0 ELSE 1 + BitLength(k \div 2)

\* the float of mantissa mant times 2^e, rounded up by one unit in the last
\* place or not
Rounded(mant, e, up) ==
    LET l == mant[3] + (IF up THEN 1 ELSE 0)
        m == mant[2] + (IF l = LowBase THEN 1 ELSE 0)
        h == mant[1] + (IF m = LimbBase THEN 1 ELSE 0)
    IN  IF h = LimbBase
        THEN <<<<LimbBase \div 2, 0, 0>>, e + 1>>
        ELSE <<<<h, m % LimbBase, l % LowBase>>, e>>

RECURSIVE ScaleUp(_, _)
\* doublings of d until r < d
ScaleUp(r, d) == IF r < d THEN 0 ELSE 1 + ScaleUp(r, 2 * d)

RECURSIVE ScaleDown(_, _)
\* doublings of r > 0 until 2 * r >= d
ScaleDown(r, d) == IF 2 * r >= d THEN 0 ELSE 1 + ScaleDown(2 * r, d)

\* a / b in floats, for integers a >= 0 and b > 0
float_div(a, b) ==
    IF a = 0 THEN Zero64
    ELSE LET sd == ScaleUp(a, b)
             d == b * Pow2(sd)
             sr == ScaleDown(a, d)
             r == a * Pow2(sr)                 \* d / 2 <= r < d
             h == (r * LimbBase) \div d
             r1 == (r * LimbBase) % d
             m == (r1 * LimbBase) \div d
             r2 == (r1 * LimbBase) % d
             l == (r2 * LowBase) \div d
             r3 == (r2 * LowBase) % d
             up == \/ 2 * r3 > d
                   \/ 2 * r3 = d /\ l % 2 = 1
         IN  Rounded(<<h, m, l>>, sd - sr - MANTISSA_BITS, up)

\* x * n in floats, for a float x >= 0 and an integer n >= 0
float_mul(x, n) ==
    IF x = Zero64 \/ n = 0 THEN Zero64
    ELSE LET pl == x[1][3] * n
             pm == x[1][2] * n + pl \div LowBase
             ph == x[1][1] * n + pm \div LimbBase
             l == pl % LowBase
             m == pm % LimbBase
             h == ph % LimbBase
             c == ph \div LimbBase              \* the digits beyond the mantissa
             extra == BitLength(c)
             s == Pow2(extra)
             dropped == l % s
             mant == <<h \div s + c * (LimbBase \div s),
                       m \div s + (h % s) * (LimbBase \div s),
                       l \div s + (m % s) * (LowBase \div s)>>
             up == \/ 2 * dropped > s
                   \/ 2 * dropped = s /\ mant[3] % 2 = 1
         IN  Rounded(mant, x[2] + extra, up)

\* math.ceil(x) of a float 0 <= x < 2^18
ceil(x) ==
    IF x = Zero64 THEN 0
    ELSE LET k == MANTISSA_BITS + x[2]   \* digits before the binary point
         IN  IF k <= 0 THEN 1
             ELSE LET s == Pow2(LimbBits - k)
                      whole == x[1][1] \div s
                      fraction == x[1][1] % s # 0 \/ x[1][2] # 0 \/ x[1][3] # 0
                  IN  IF fraction THEN whole + 1 ELSE whole

\* _percentile that counts the index from the end of the sorted values
percentile_from_end(sorted_values, p) ==
    IF Len(sorted_values) = 0
    THEN 0
    ELSE LET n == Len(sorted_values)
             index == ceil(float_mul(float_div(p, 100), n)) - 1
         IN  sorted_values[n - Max(0, Min(index, n - 1))]

\* _percentile(sorted_values, p): index math.ceil((p / 100) * n) - 1, clamped
percentile(sorted_values, p) ==
    IF Len(sorted_values) = 0
    THEN 0
    ELSE LET n == Len(sorted_values)
             index == ceil(float_mul(float_div(p, 100), n)) - 1
         IN  sorted_values[Max(0, Min(index, n - 1)) + 1]

RECURSIVE MinSeq(_)
MinSeq(s) == IF Len(s) = 1 THEN s[1] ELSE Min(Head(s), MinSeq(Tail(s)))
RECURSIVE MaxSeq(_)
MaxSeq(s) == IF Len(s) = 1 THEN s[1] ELSE Max(Head(s), MaxSeq(Tail(s)))

IsSuccess(m) == m.success
IsFailure(m) == ~m.success
HasLatency(m) == m.latency # None
LatencyOf(m) == m.latency[1]
StartOf(m) == m.start_time
\* m.end_time or m.start_time (None and 0 are falsy)
EndOrStartOf(m) == IF m.end_time # None /\ m.end_time[1] # 0 THEN m.end_time[1] ELSE m.start_time
OrZero(opt) == IF opt = None THEN 0 ELSE opt[1]
InputTokensOf(m) == OrZero(m.input_tokens)
OutputTokensOf(m) == OrZero(m.output_tokens)
CostOf(m) == OrZero(m.cost)

NoMetricsError == Raised("ValueError", "No metrics recorded")
NoLatencyError ==
    Raised("ValueError", "No successful requests with latency data to generate report")

\* generate_report() without the guard of lines 324-325: with no successful
\* latency it returns a report whose latency figures are all zero
generate_report_zero_filled(ms) ==
    IF Len(ms) = 0 THEN NoMetricsError
    ELSE Returned(
           [total_requests |-> Len(ms),
            successful_requests |-> Len(SelectSeq(ms, IsSuccess)),
            failed_requests |-> Len(SelectSeq(ms, IsFailure)),
            error_rate |-> <<Len(SelectSeq(ms, IsFailure)), Len(ms)>>,
            mean_latency |-> <<0, 1>>, median_latency |-> 0,
            p95_latency |-> 0, p99_latency |-> 0,
            min_latency |-> 0, max_latency |-> 0])

\* generate_report() over the finalized list ms: the report or the error raised.
\* duration is in milliseconds (floored at min_duration_seconds = 1 ms), so
\* requests_per_second = total_requests * 1000 / duration.
generate_report(ms) ==
    IF Len(ms) = 0 THEN NoMetricsError
    ELSE
    LET successful == SelectSeq(ms, IsSuccess)
        failed == SelectSeq(ms, IsFailure)
        latencies == SortSeq(MapSeq(SelectSeq(successful, HasLatency), LatencyOf),
                             LAMBDA a, b : a < b)
    IN  IF Len(latencies) = 0 THEN NoLatencyError
        ELSE
        LET input_tokens == MapSeq(successful, InputTokensOf)
            output_tokens == MapSeq(successful, OutputTokensOf)
            costs == MapSeq(successful, CostOf)
            min_time == MinSeq(MapSeq(ms, StartOf))
            max_time == MaxSeq(MapSeq(ms, EndOrStartOf))
            duration == Max(max_time - min_time, 1)
            total_tokens == SumSeq(input_tokens) + SumSeq(output_tokens)
        IN  Returned(
              [total_requests |-> Len(ms),
               successful_requests |-> Len(successful),
               failed_requests |-> Len(failed),
               error_rate |-> <<Len(failed), Len(ms)>>,
               mean_latency |-> mean(latencies),
               median_latency |-> percentile(latencies, 50),
               p95_latency |-> percentile(latencies, 95),
               p99_latency |-> percentile(latencies, 99),
               min_latency |-> MinSeq(latencies),
               max_latency |-> MaxSeq(latencies),
               total_input_tokens |-> SumSeq(input_tokens),
               total_output_tokens |-> SumSeq(output_tokens),
               total_tokens |-> total_tokens,
               mean_input_tokens |-> mean(input_tokens),
               mean_output_tokens |-> mean(output_tokens),
               total_cost |-> SumSeq(costs),
               mean_cost |-> mean(costs),
               duration |-> duration,
               requests_per_second |-> <<Len(ms) * 1000, duration>>,
               tokens_per_second |-> <<total_tokens * 1000, duration>>,
               start_time |-> min_time,
               end_time |-> max_time])

\* a call of generate_report()
GenerateReport ==
    /\ op' = Op("generate_report", NoId)
    /\ result' = generate_report(metrics)
    /\ UNCHANGED collectorVars
    /\ UNCHANGED <<aggregatorVars, evaluatorVars, percentileVars, threads>>

\* get_metrics(): a copy of the finalized list
get_metrics(ms) == ms

\* get_metrics_by_status(success)
get_metrics_by_status(ms, success) == SelectSeq(ms, LAMBDA m : m.success = success)

\* get_metrics_by_model(model)
get_metrics_by_model(ms, model) == SelectSeq(ms, LAMBDA m : m.model = Some(model))

\* a call of get_metrics()
GetMetrics ==
    /\ op' = Op("get_metrics", NoId)
    /\ result' = Returned(get_metrics(metrics))
    /\ UNCHANGED collectorVars
    /\ UNCHANGED <<aggregatorVars, evaluatorVars, percentileVars, threads>>

\* a call of get_metrics_by_status(success)
GetMetricsByStatus ==
    /\ op' = Op("get_metrics_by_status", NoId)
    /\ \E success \in BOOLEAN :
          result' = ReturnedFor(success, get_metrics_by_status(metrics, success))
    /\ UNCHANGED collectorVars
    /\ UNCHANGED <<aggregatorVars, evaluatorVars, percentileVars, threads>>

\* a call of get_metrics_by_model(model)
GetMetricsByModel ==
    /\ op' = Op("get_metrics_by_model", NoId)
    /\ \E model \in DOMAIN MODEL_PRICING :
          result' = ReturnedFor(model, get_metrics_by_model(metrics, model))
    /\ UNCHANGED collectorVars
    /\ UNCHANGED <<aggregatorVars, evaluatorVars, percentileVars, threads>>

\* generate_report_text(): the report generate_report() returns laid out as
\* text (the figures are kept as the report holds them), or its error
generate_report_text(ms) ==
    LET generated == generate_report(ms)
    IN  IF generated.kind = "raised" THEN generated
        ELSE Returned([title |-> "Performance Report",
                       sections |-> <<"Requests", "Latency (ms)", "Tokens", "Cost",
                                      "Throughput", "Time Range">>,
                       figures |-> generated.value])

\* a call of generate_report_text()
GenerateReportText ==
    /\ op' = Op("generate_report_text", NoId)
    /\ result' = generate_report_text(metrics)
    /\ UNCHANGED collectorVars
    /\ UNCHANGED <<aggregatorVars, evaluatorVars, percentileVars, threads>>

\* PerformanceSLO: latencies in milliseconds, max_error_rate a rational,
\* min_throughput in requests per second, max_cost_per_request in millionths
\* of a dollar
PerformanceSLO(max_p95_latency, max_p99_latency, max_error_rate, min_throughput, max_cost_per_request) ==
    [max_p95_latency |-> max_p95_latency, max_p99_latency |-> max_p99_latency,
     max_error_rate |-> max_error_rate, min_throughput |-> min_throughput,
     max_cost_per_request |-> max_cost_per_request]

\* Python truthiness of an Optional[float]: None and 0.0 are falsy
TruthyNumber(opt) == opt # None /\ opt[1] # 0

\* one violation message: the bound breached, the reported value and the bound
Violation(bound, value, limit) == [bound |-> bound, value |-> value, limit |-> limit]

\* check_slo(slo) over the finalized metrics ms
check_slo(ms, slo) ==
    LET generated == generate_report(ms)
    IN  IF generated.kind = "raised" THEN generated
        ELSE
        LET report == generated.value
            p95 == IF report.p95_latency > slo.max_p95_latency
                   THEN <<Violation("max_p95_latency", report.p95_latency, slo.max_p95_latency)>>
                   ELSE <<>>
            p99 == IF report.p99_latency > slo.max_p99_latency
                   THEN <<Violation("max_p99_latency", report.p99_latency, slo.max_p99_latency)>>
                   ELSE <<>>
            errors == IF RLess(slo.max_error_rate, report.error_rate)
                      THEN <<Violation("max_error_rate", report.error_rate, slo.max_error_rate)>>
                      ELSE <<>>
            throughput ==
                IF /\ TruthyNumber(slo.min_throughput)
                   /\ RLess(report.requests_per_second, <<slo.min_throughput[1], 1>>)
                THEN <<Violation("min_throughput", report.requests_per_second, slo.min_throughput)>>
                ELSE <<>>
            cost ==
                IF /\ TruthyNumber(slo.max_cost_per_request)
                   /\ RLess(<<slo.max_cost_per_request[1], 1>>, report.mean_cost)
                THEN <<Violation("max_cost_per_request", report.mean_cost, slo.max_cost_per_request)>>
                ELSE <<>>
            violations == p95 \o p99 \o errors \o throughput \o cost
        IN  ReturnedFor(slo, [passed |-> Len(violations) = 0,
                              violations |-> violations,
                              report |-> report])

\* the SLOs check_slo is called with
SLOs ==
    { PerformanceSLO(lim[1], lim[2], lim[3], thr, cost) :
        lim \in {<<0, 0, <<0, 1>>>>, <<0, 1, <<1, 2>>>>,
                 <<1, 0, <<0, 1>>>>, <<1, 1, <<1, 2>>>>},
        thr \in {None, Some(0), Some(1500)},
        cost \in {None, Some(0), Some(1)} }

\* a call of check_slo(slo) with one of the SLOs slos
CheckSLOAmong(slos) ==
    \E slo \in slos :
        /\ op' = Op("check_slo", NoId)
        /\ result' = check_slo(metrics, slo)
        /\ UNCHANGED collectorVars
        /\ UNCHANGED <<aggregatorVars, evaluatorVars, percentileVars, threads>>

\* a call of check_slo(slo)
CheckSLO == CheckSLOAmong(SLOs)

\* the clock advances
Tick ==
    /\ now < MaxClock
    /\ now' = now + 1
    /\ op' = Op("tick", NoId)
    /\ result' = NoResult
    /\ UNCHANGED <<metrics, active_requests, request_counter, handles, endCount>>
    /\ UNCHANGED <<aggregatorVars, evaluatorVars, percentileVars, threads>>


(***************************************************************************)
(* MetricsAggregator                                                       *)
(* avg_similarity is held in hundredths (85 is 0.85) and avg_latency in    *)
(* milliseconds; thresholds that are relative changes are rationals.       *)
(***************************************************************************)
DEFAULT_SIMILARITY_DROP_THRESHOLD == <<1, 10>>
DEFAULT_LATENCY_INCREASE_THRESHOLD == <<1, 4>>
DEFAULT_PASS_RATE_DROP_THRESHOLD == <<1, 20>>
DEFAULT_MIN_TEST_RUNS == 3
CRITICAL_SIMILARITY_DROP_THRESHOLD == <<1, 5>>
CRITICAL_LATENCY_INCREASE_THRESHOLD == <<1, 2>>
CRITICAL_PASS_RATE_DROP_THRESHOLD == <<1, 10>>
MIN_RUNS_FOR_TREND == 5
\* 0.05 and -0.05, in hundredths
TREND_IMPROVEMENT_THRESHOLD == <<5, 1>>
TREND_DEGRADATION_THRESHOLD == <<-5, 1>>
MAX_HISTORY_RUNS == 100
DEFAULT_BASELINE_RUNS == 10
DEFAULT_RECENT_RUNS == 10

\* AlertThresholds as __init__ sets them
DefaultThresholds ==
    [similarity_drop |-> DEFAULT_SIMILARITY_DROP_THRESHOLD,
     latency_increase |-> DEFAULT_LATENCY_INCREASE_THRESHOLD,
     pass_rate_drop |-> DEFAULT_PASS_RATE_DROP_THRESHOLD,
     min_test_runs |-> DEFAULT_MIN_TEST_RUNS]

\* a datetime: seconds, and "naive" or its UTC offset
DateTime(secs) == [secs |-> secs, tz |-> "naive"]

\* TestRunResult (the Optional fields no operation reads are left out)
TestRun(ts, total, passed, sim, lat) ==
    [timestamp |-> ts, test_suite |-> "test", total_tests |-> total,
     passed |-> passed, failed |-> total - passed, skipped |-> 0,
     duration |-> 1000, avg_similarity |-> sim, avg_latency |-> lat]

\* datetime.isoformat(): the text, as <<seconds, offset suffix>>
isoformat(dt) == <<dt.secs, IF dt.tz = "naive" THEN "" ELSE dt.tz>>
\* datetime.fromisoformat(text.replace('Z', '+00:00'))
fromisoformat(text) ==
    LET suffix == IF text[2] = "Z" THEN "+00:00" ELSE text[2]
    IN  [secs |-> text[1], tz |-> IF suffix = "" THEN "naive" ELSE suffix]

\* asdict(result) with data['timestamp'] = result.timestamp.isoformat()
to_item(run) == [run EXCEPT !.timestamp = isoformat(run.timestamp)]
\* TestRunResult(**{**item, 'timestamp': datetime.fromisoformat(...)})
from_item(item) == [item EXCEPT !.timestamp = fromisoformat(item.timestamp)]

\* the file _ensure_data_dir writes: json.dump([])
\* the content of the history file: kind "array" is a JSON array of items,
\* "object" a JSON value that is no array (items: the values it holds),
\* "unreadable" a file that is missing or holds no JSON
EmptyFile == [kind |-> "array", items |-> <<>>]

\* _load_history without the isinstance check of lines 182-187
load_history_unvalidated(file) == MapSeq(file.items, from_item)

\* _load_history: [] when opening or parsing the file fails (lines 201-206)
\* and when it holds no array (lines 182-187)
load_history(file) ==
    IF file.kind = "unreadable" THEN <<>>
    ELSE IF file.kind # "array" THEN <<>>
    ELSE MapSeq(file.items, from_item)

\* _save_history: the file content written
save_history(history) == [kind |-> "array", items |-> MapSeq(history, to_item)]

\* s[-count:] of Python, count >= 0 (s[-0:] is the whole of s)
LastSlice(s, count) ==
    IF count = 0 \/ count >= Len(s) THEN s ELSE SubSeq(s, Len(s) - count + 1, Len(s))

\* record_test_run without the truncation of lines 170-171
history_after_record_untrimmed(file, run) == Append(load_history(file), run)

\* record_test_run: the history it saves
history_after_record(file, run) ==
    LET history == Append(load_history(file), run)
    IN  IF Len(history) > MAX_HISTORY_RUNS
        THEN LastSlice(history, MAX_HISTORY_RUNS)
        ELSE history

\* get_recent_runs(count)
get_recent_runs(file, count) ==
    LET history == load_history(file)
    IN  IF Len(history) >= count THEN LastSlice(history, count) ELSE history

HasSimilarity(r) == r.avg_similarity # None
SimilarityOf(r) == r.avg_similarity[1]
HasLatencyValue(r) == r.avg_latency # None
LatencyValueOf(r) == r.avg_latency[1]
TotalTestsOf(r) == r.total_tests
PassedOf(r) == r.passed

\* _calculate_trend(runs)
calculate_trend(runs) ==
    IF Len(runs) < MIN_RUNS_FOR_TREND THEN "stable"
    ELSE
    LET mid == Len(runs) \div 2
        first_half == SubSeq(runs, 1, mid)
        second_half == SubSeq(runs, mid + 1, Len(runs))
        first_avg_sim == mean(MapSeq(SelectSeq(first_half, HasSimilarity), SimilarityOf))
        second_avg_sim == mean(MapSeq(SelectSeq(second_half, HasSimilarity), SimilarityOf))
    IN  IF first_avg_sim[1] = 0 \/ second_avg_sim[1] = 0 THEN "stable"
        ELSE LET change == RSub(second_avg_sim, first_avg_sim)
             IN  IF RLess(TREND_IMPROVEMENT_THRESHOLD, change) THEN "improving"
                 ELSE IF RLess(change, TREND_DEGRADATION_THRESHOLD) THEN "degrading"
                 ELSE "stable"

\* the aggregates calculate_baseline computes over the window recent_runs
AggregatedMetrics(runs, recent_runs) ==
    LET total_tests == SumSeq(MapSeq(recent_runs, TotalTestsOf))
        total_passed == SumSeq(MapSeq(recent_runs, PassedOf))
        similarities == MapSeq(SelectSeq(recent_runs, HasSimilarity), SimilarityOf)
        latencies == MapSeq(SelectSeq(recent_runs, HasLatencyValue), LatencyValueOf)
    IN  [period |-> runs,
         test_runs |-> Len(recent_runs),
         avg_pass_rate |-> IF total_tests > 0 THEN <<total_passed, total_tests>> ELSE <<0, 1>>,
         avg_similarity |-> mean(similarities),
         avg_latency |-> mean(latencies),
         trend |-> calculate_trend(recent_runs)]

\* calculate_baseline(runs): None, or the AggregatedMetrics
calculate_baseline(file, th, runs) ==
    LET recent_runs == get_recent_runs(file, runs)
    IN  IF Len(recent_runs) < th.min_test_runs
        THEN None
        ELSE Some(AggregatedMetrics(runs, recent_runs))

RegressionAlert(severity, metric, current, baseline, percent_change) ==
    [severity |-> severity, metric |-> metric, current |-> current,
     baseline |-> baseline, percent_change |-> percent_change]

\* the similarity check alerting already at the threshold (<= for <)
similarity_check_at_threshold(latest, baseline, th) ==
    IF latest.avg_similarity = None THEN <<>>
    ELSE
    LET current == <<latest.avg_similarity[1], 1>>
        sim_change == RDiv(RSub(current, baseline.avg_similarity), baseline.avg_similarity)
    IN  IF RLeq(sim_change, RNeg(th.similarity_drop))
        THEN << RegressionAlert(
                  IF RLeq(sim_change, RNeg(CRITICAL_SIMILARITY_DROP_THRESHOLD))
                  THEN "critical" ELSE "warning",
                  "similarity", current, baseline.avg_similarity,
                  RTimes(sim_change, 100)) >>
        ELSE <<>>

\* lines 339-361: the similarity check; <<>> or one alert.  The caller has
\* excluded a zero baseline, on which the division raises.
similarity_check(latest, baseline, th) ==
    IF latest.avg_similarity = None THEN <<>>
    ELSE
    LET current == <<latest.avg_similarity[1], 1>>
        sim_change == RDiv(RSub(current, baseline.avg_similarity), baseline.avg_similarity)
    IN  IF RLess(sim_change, RNeg(th.similarity_drop))
        THEN << RegressionAlert(
                  IF RLeq(sim_change, RNeg(CRITICAL_SIMILARITY_DROP_THRESHOLD))
                  THEN "critical" ELSE "warning",
                  "similarity", current, baseline.avg_similarity,
                  RTimes(sim_change, 100)) >>
        ELSE <<>>

\* lines 364-386: the latency check
latency_check(latest, baseline, th) ==
    IF latest.avg_latency # None /\ baseline.avg_latency[1] > 0
    THEN
    LET current == <<latest.avg_latency[1], 1>>
        latency_change == RDiv(RSub(current, baseline.avg_latency), baseline.avg_latency)
    IN  IF RLess(th.latency_increase, latency_change)
        THEN << RegressionAlert(
                  IF RLeq(CRITICAL_LATENCY_INCREASE_THRESHOLD, latency_change)
                  THEN "critical" ELSE "warning",
                  "latency", current, baseline.avg_latency,
                  RTimes(latency_change, 100)) >>
        ELSE <<>>
    ELSE <<>>

\* lines 389-416: the pass rate check
pass_rate_check(latest, baseline, th) ==
    LET current_pass_rate ==
            IF latest.total_tests > 0 THEN <<latest.passed, latest.total_tests>> ELSE <<0, 1>>
        pass_rate_change == RSub(current_pass_rate, baseline.avg_pass_rate)
    IN  IF RLess(pass_rate_change, RNeg(th.pass_rate_drop))
        THEN << RegressionAlert(
                  IF RLess(pass_rate_change, RNeg(CRITICAL_PASS_RATE_DROP_THRESHOLD))
                  THEN "critical" ELSE "warning",
                  "pass_rate", current_pass_rate, baseline.avg_pass_rate,
                  IF baseline.avg_pass_rate[1] > 0
                  THEN RTimes(RDiv(pass_rate_change, baseline.avg_pass_rate), 100)
                  ELSE <<0, 1>>) >>
        ELSE <<>>

\* the outcome of check_for_regressions(), with the return statement taken
AlertsReturned(alerts, path) == [kind |-> "returned", value |-> alerts, path |-> path]

\* the baseline check_for_regressions judges the latest run against
regression_baseline(file, th) == calculate_baseline(file, th, DEFAULT_BASELINE_RUNS)

\* check_for_regressions()
check_for_regressions(file, th) ==
    LET history == load_history(file)
    IN  IF Len(history) < th.min_test_runs + 1
        THEN AlertsReturned(<<>>, "not enough data")
        ELSE
        LET latest == history[Len(history)]
            baseline == regression_baseline(file, th)
        IN  IF baseline = None
            THEN AlertsReturned(<<>>, "no baseline")
            ELSE IF latest.avg_similarity # None /\ baseline[1].avg_similarity[1] = 0
            THEN Raised("ZeroDivisionError", "float division by zero")
            ELSE AlertsReturned(similarity_check(latest, baseline[1], th)
                                 \o latency_check(latest, baseline[1], th)
                                 \o pass_rate_check(latest, baseline[1], th),
                                "checked")

\* record_test_run(run)
record_test_run(run) ==
    /\ history_file' = save_history(history_after_record(history_file, run))
    /\ recorded' = Append(recorded, run)
    /\ op' = Op("record_test_run", NoId)
    /\ result' = Returned(None)
    /\ UNCHANGED thresholds
    /\ UNCHANGED <<collectorVars, evaluatorVars, percentileVars, threads>>

\* set_thresholds(th)
set_thresholds(th) ==
    /\ thresholds' = th
    /\ op' = Op("set_thresholds", NoId)
    /\ result' = Returned(None)
    /\ UNCHANGED <<history_file, recorded>>
    /\ UNCHANGED <<collectorVars, evaluatorVars, percentileVars, threads>>

\* clear_history()
clear_history ==
    /\ history_file' = save_history(<<>>)
    /\ recorded' = <<>>
    /\ op' = Op("clear_history", NoId)
    /\ result' = Returned(None)
    /\ UNCHANGED thresholds
    /\ UNCHANGED <<collectorVars, evaluatorVars, percentileVars, threads>>

\* a call of check_for_regressions()
CheckForRegressions ==
    /\ op' = Op("check_for_regressions", NoId)
    /\ result' = check_for_regressions(history_file, thresholds)
    /\ UNCHANGED aggregatorVars
    /\ UNCHANGED <<collectorVars, evaluatorVars, percentileVars, threads>>

SECONDS_PER_DAY == 86400

\* get_runs_for_period(days) when datetime.now() reads today (in seconds): a
\* naive datetime does not compare with one that carries an offset
get_runs_for_period(file, days, today) ==
    LET history == load_history(file)
        cutoff == today - days * SECONDS_PER_DAY
    IN  IF \E i \in 1..Len(history) : history[i].timestamp.tz # "naive"
        THEN Raised("TypeError", "can't compare offset-naive and offset-aware datetimes")
        ELSE Returned(SelectSeq(history, LAMBDA r : r.timestamp.secs >= cutoff))

\* the text generate_dashboard returns without a baseline or a latest run
InsufficientData ==
    [title |-> "Insufficient data for dashboard (need at least 3 test runs)",
     sections |-> <<>>]

\* the lines under Alerts:
AlertLines(alerts) ==
    IF Len(alerts) = 0 THEN <<"No regressions detected">>
    ELSE [i \in 1..Len(alerts) |->
             <<IF alerts[i].severity = "critical" THEN "CRITICAL" ELSE "WARNING",
               alerts[i].metric>>]

\* generate_dashboard(): the text, by its sections, or the error raised
generate_dashboard(file, th) ==
    LET baseline == calculate_baseline(file, th, DEFAULT_BASELINE_RUNS)
        recent == get_recent_runs(file, 1)
        alerts == check_for_regressions(file, th)
    IN  IF alerts.kind = "raised" THEN alerts
        ELSE IF baseline = None \/ Len(recent) = 0 THEN Returned(InsufficientData)
        ELSE
        LET latest == recent[1]
        IN  IF latest.total_tests = 0
            THEN Raised("ZeroDivisionError", "division by zero")
            ELSE Returned(
                   [title |-> "Test Metrics Dashboard",
                    sections |-> <<"Latest Run", "Current Status", "Baseline", "Alerts">>,
                    latest_run |-> isoformat(latest.timestamp),
                    tests |-> <<latest.passed, latest.total_tests>>,
                    similarity |-> latest.avg_similarity,
                    latency |-> latest.avg_latency,
                    baseline |-> baseline[1],
                    alerts |-> AlertLines(alerts.value)])

\* export_prometheus_metrics(): the gauges of the latest run, '' without one
export_prometheus_metrics(file) ==
    LET recent == get_recent_runs(file, 1)
    IN  IF Len(recent) = 0 THEN <<>>
        ELSE LET latest == recent[1]
             IN  << <<"llm_tests_total", latest.total_tests>>,
                    <<"llm_tests_passed", latest.passed>> >>
                 \o (IF latest.avg_similarity # None
                     THEN << <<"llm_similarity_score", latest.avg_similarity[1]>> >> ELSE <<>>)
                 \o (IF latest.avg_latency # None
                     THEN << <<"llm_latency_ms", latest.avg_latency[1]>> >> ELSE <<>>)

\* the days get_runs_for_period looks back
PeriodDays == {0, 1, 7}

\* a call of get_runs_for_period(days)
GetRunsForPeriod ==
    /\ op' = Op("get_runs_for_period", NoId)
    /\ \E days \in PeriodDays :
          result' = get_runs_for_period(history_file, days, now \div 1000)
    /\ UNCHANGED aggregatorVars
    /\ UNCHANGED <<collectorVars, evaluatorVars, percentileVars, threads>>

\* a call of generate_dashboard()
GenerateDashboard ==
    /\ op' = Op("generate_dashboard", NoId)
    /\ result' = generate_dashboard(history_file, thresholds)
    /\ UNCHANGED aggregatorVars
    /\ UNCHANGED <<collectorVars, evaluatorVars, percentileVars, threads>>

\* a call of export_prometheus_metrics()
ExportPrometheusMetrics ==
    /\ op' = Op("export_prometheus_metrics", NoId)
    /\ result' = Returned(export_prometheus_metrics(history_file))
    /\ UNCHANGED aggregatorVars
    /\ UNCHANGED <<collectorVars, evaluatorVars, percentileVars, threads>>

\* contents of the history file that are no history
CorruptContents ==
    { [kind |-> "unreadable", items |-> <<>>],
      [kind |-> "object", items |-> <<>>],
      [kind |-> "object",
       items |-> <<to_item(TestRun(DateTime(0), 10, 10, Some(85), Some(500)))>>] }

\* the history file is damaged or replaced from outside the aggregator
CorruptHistory ==
    \E content \in CorruptContents :
        /\ history_file' = content
        /\ recorded' = <<>>
        /\ op' = Op("corrupt_history", NoId)
        /\ result' = NoResult
        /\ UNCHANGED thresholds
        /\ UNCHANGED <<collectorVars, evaluatorVars, percentileVars, threads>>

\* the run counts get_recent_runs and calculate_baseline are called with
RunCounts == {0, 1, 3, DEFAULT_BASELINE_RUNS}

\* a call of get_recent_runs(count) that resets a damaged history file to an
\* empty array, as the warning of _load_history says
GetRecentRunsResetting ==
    \E count \in RunCounts :
        /\ op' = Op("get_recent_runs", NoId)
        /\ result' = ReturnedFor(count, get_recent_runs(history_file, count))
        /\ history_file' = IF history_file.kind = "array"
                           THEN history_file ELSE save_history(<<>>)
        /\ UNCHANGED <<thresholds, recorded>>
        /\ UNCHANGED <<collectorVars, evaluatorVars, percentileVars, threads>>

\* a call of get_recent_runs(count)
GetRecentRuns ==
    \E count \in RunCounts :
        /\ op' = Op("get_recent_runs", NoId)
        /\ result' = ReturnedFor(count, get_recent_runs(history_file, count))
        /\ UNCHANGED aggregatorVars
        /\ UNCHANGED <<collectorVars, evaluatorVars, percentileVars, threads>>

\* a call of calculate_baseline(runs)
CalculateBaseline ==
    \E runs \in RunCounts :
        /\ op' = Op("calculate_baseline", NoId)
        /\ result' = ReturnedFor(runs, calculate_baseline(history_file, thresholds, runs))
        /\ UNCHANGED aggregatorVars
        /\ UNCHANGED <<collectorVars, evaluatorVars, percentileVars, threads>>

(***************************************************************************)
(* Text metrics and SummaryEvaluator                                       *)
(* A text is a sequence of characters; a token is a non-empty sequence of  *)
(* word characters.  Scores that gate a verdict are compared exactly.      *)
(***************************************************************************)
MaxTextLen == 3   \* characters in a candidate summary

\* the characters texts are made of: letters, a capital, a blank, punctuation
Chars == {"a", "b", "A", " ", ","}
\* str.lower()
LowerChar(c) == IF c = "A" THEN "a" ELSE c
Lower(text) == [i \in 1..Len(text) |-> LowerChar(text[i])]
\* \w and \s of the regular expressions
IsWordChar(c) == c \in {"a", "b", "A"}
IsSpaceChar(c) == c = " "

\* str.split(): the maximal runs of non-blank characters
RECURSIVE SplitWords(_, _)
SplitWords(text, word) ==
    IF text = <<>>
    THEN IF word = <<>> THEN <<>> ELSE <<word>>
    ELSE IF IsSpaceChar(Head(text))
         THEN (IF word = <<>> THEN <<>> ELSE <<word>>) \o SplitWords(Tail(text), <<>>)
         ELSE SplitWords(Tail(text), Append(word, Head(text)))

\* _tokenize: re.sub(r'[^\w\s]', ' ', text.lower()).split()
tokenize(text) ==
    LET lowered == Lower(text)
        cleaned == [i \in 1..Len(lowered) |->
                       IF IsWordChar(lowered[i]) \/ IsSpaceChar(lowered[i])
                       THEN lowered[i] ELSE " "]
    IN  SplitWords(cleaned, <<>>)

Range(s) == {s[i] : i \in 1..Len(s)}
\* Counter(words)[word]
CountOf(words, word) == Cardinality({i \in 1..Len(words) : words[i] = word})

\* sum(f[x] for x in DOMAIN f)
RECURSIVE SumFn(_)
SumFn(f) ==
    IF DOMAIN f = {} THEN 0
    ELSE LET x == CHOOSE y \in DOMAIN f : TRUE
         IN  f[x] + SumFn([y \in (DOMAIN f) \ {x} |-> f[y]])

\* cosine_similarity: dot_product / (mag1 * mag2) with mag = sqrt(magsq), kept
\* as its exact parts; the score is 0 when a magnitude is 0
cosine_similarity(text1, text2) ==
    LET words1 == tokenize(text1)
        words2 == tokenize(text2)
        vocab == Range(words1 \o words2)
    IN  [dot_product |-> SumFn([w \in vocab |-> CountOf(words1, w) * CountOf(words2, w)]),
         mag1sq |-> SumFn([w \in vocab |-> CountOf(words1, w) * CountOf(words1, w)]),
         mag2sq |-> SumFn([w \in vocab |-> CountOf(words2, w) * CountOf(words2, w)])]

\* jaccard_similarity that divides by the size of the first word set
jaccard_by_first(text1, text2) ==
    LET words1 == Range(tokenize(text1))
        words2 == Range(tokenize(text2))
        intersection == words1 \cap words2
        union == words1 \cup words2
    IN  IF Cardinality(union) = 0 \/ Cardinality(words1) = 0 THEN <<0, 1>>
        ELSE <<Cardinality(intersection), Cardinality(words1)>>

\* jaccard_similarity
jaccard_similarity(text1, text2) ==
    LET words1 == Range(tokenize(text1))
        words2 == Range(tokenize(text2))
        intersection == words1 \cap words2
        union == words1 \cup words2
    IN  IF Cardinality(union) = 0 THEN <<0, 1>>
        ELSE <<Cardinality(intersection), Cardinality(union)>>

\* overlap_coefficient
overlap_coefficient(text1, text2) ==
    LET words1 == Range(tokenize(text1))
        words2 == Range(tokenize(text2))
        intersection == words1 \cap words2
        min_size == Min(Cardinality(words1), Cardinality(words2))
    IN  IF min_size = 0 THEN <<0, 1>>
        ELSE <<Cardinality(intersection), min_size>>

\* 0.5 * cosine + 0.3 * jaccard + 0.2 * overlap >= k / 100, decided exactly:
\* 50 * dot / sqrt(m1 * m2) >= k - 30 * jaccard - 20 * overlap
WeightedAtLeast(cosine, jaccard, overlap, k) ==
    LET rest == <<k * jaccard[2] * overlap[2]
                    - 30 * jaccard[1] * overlap[2] - 20 * overlap[1] * jaccard[2],
                  jaccard[2] * overlap[2]>>
    IN  IF rest[1] <= 0 THEN TRUE
        ELSE IF cosine.mag1sq = 0 \/ cosine.mag2sq = 0 THEN FALSE
        ELSE 2500 * cosine.dot_product * cosine.dot_product * rest[2] * rest[2]
                 >= rest[1] * rest[1] * cosine.mag1sq * cosine.mag2sq

\* composite_similarity, in whole percent rounded down: the largest k with
\* score >= k / 100.  Compared with a threshold of whole percent this decides
\* exactly what the comparison of the scores decides.
composite_similarity(text1, text2) ==
    LET cosine == cosine_similarity(text1, text2)
        jaccard == jaccard_similarity(text1, text2)
        overlap == overlap_coefficient(text1, text2)
    IN  CHOOSE k \in 0..100 :
            /\ WeightedAtLeast(cosine, jaccard, overlap, k)
            /\ (k = 100 \/ ~WeightedAtLeast(cosine, jaccard, overlap, k + 1))

\* position p of text (0..Len) is a \b: a word character on exactly one side
IsWordAt(text, i) == i \in 1..Len(text) /\ IsWordChar(text[i])
WordBoundary(text, p) == IsWordAt(text, p) # IsWordAt(text, p + 1)

\* re.search(r'\b' + re.escape(term) + r'\b', text)
SearchWholeWord(term, text) ==
    \E p \in 0..(Len(text) - Len(term)) :
        /\ SubSeq(text, p + 1, p + Len(term)) = term
        /\ WordBoundary(text, p)
        /\ WordBoundary(text, p + Len(term))

\* contains_required_terms that passes when any one term is found
contains_required_terms_any(text, required_terms) ==
    IF Len(required_terms) = 0
    THEN [passed |-> TRUE, coverage |-> <<1, 1>>, missing |-> <<>>]
    ELSE
    LET text_lower == Lower(text)
        found == SelectSeq(required_terms, LAMBDA term : SearchWholeWord(Lower(term), text_lower))
        missing == SelectSeq(required_terms, LAMBDA term : ~SearchWholeWord(Lower(term), text_lower))
    IN  [passed |-> Len(found) > 0,
         coverage |-> <<Len(found), Len(required_terms)>>,
         missing |-> missing]

\* contains_required_terms
contains_required_terms(text, required_terms) ==
    IF Len(required_terms) = 0
    THEN [passed |-> TRUE, coverage |-> <<1, 1>>, missing |-> <<>>]
    ELSE
    LET text_lower == Lower(text)
        found == SelectSeq(required_terms, LAMBDA term : SearchWholeWord(Lower(term), text_lower))
        missing == SelectSeq(required_terms, LAMBDA term : ~SearchWholeWord(Lower(term), text_lower))
    IN  [passed |-> Len(found) = Len(required_terms),
         coverage |-> <<Len(found), Len(required_terms)>>,
         missing |-> missing]

\* validate_length with the upper bound exclusive
validate_length_exclusive(text, min_words, max_words) ==
    IF min_words < 0 \/ max_words < 0
    THEN Raised("ValueError", "Word count limits must be non-negative")
    ELSE IF min_words > max_words
    THEN Raised("ValueError", "min_words cannot be greater than max_words")
    ELSE LET word_count == Len(tokenize(text))
         IN  Returned([passed |-> min_words <= word_count /\ word_count < max_words,
                       word_count |-> word_count])

\* validate_length without the check of min_words against max_words
validate_length_unordered(text, min_words, max_words) ==
    IF min_words < 0 \/ max_words < 0
    THEN Raised("ValueError", "Word count limits must be non-negative")
    ELSE LET word_count == Len(tokenize(text))
         IN  Returned([passed |-> min_words <= word_count /\ word_count <= max_words,
                       word_count |-> word_count])

\* validate_length
validate_length(text, min_words, max_words) ==
    IF min_words < 0 \/ max_words < 0
    THEN Raised("ValueError", "Word count limits must be non-negative")
    ELSE IF min_words > max_words
    THEN Raised("ValueError", "min_words cannot be greater than max_words")
    ELSE LET word_count == Len(tokenize(text))
         IN  Returned([passed |-> min_words <= word_count /\ word_count <= max_words,
                       word_count |-> word_count])

\* _get_ngrams
\* (range(len(tokens) - n + 1) is empty when tokens has fewer than n elements)
get_ngrams(tokens, n) ==
    [i \in 1..Max(0, Len(tokens) - n + 1) |-> SubSeq(tokens, i, i + n - 1)]

\* _count_ngrams
count_ngrams(ngrams) == [g \in Range(ngrams) |-> CountOf(ngrams, g)]

\* the loop of ngram_precision without using up the reference counts
CountMatchesUnconsumed(cand_ngrams, ref_counts) ==
    Len(SelectSeq(cand_ngrams, LAMBDA key : key \in DOMAIN ref_counts))

\* the loop of ngram_precision: matches found, using up the reference counts
RECURSIVE CountMatches(_, _)
CountMatches(cand_ngrams, ref_counts) ==
    IF cand_ngrams = <<>> THEN 0
    ELSE LET key == Head(cand_ngrams)
         IN  IF key \in DOMAIN ref_counts /\ ref_counts[key] > 0
             THEN 1 + CountMatches(Tail(cand_ngrams), [ref_counts EXCEPT ![key] = @ - 1])
             ELSE CountMatches(Tail(cand_ngrams), ref_counts)

\* ngram_precision
ngram_precision(reference, cand, n) ==
    LET ref_ngrams == get_ngrams(tokenize(reference), n)
        cand_ngrams == get_ngrams(tokenize(cand), n)
    IN  IF Len(cand_ngrams) = 0 THEN <<0, 1>>
        ELSE <<CountMatches(cand_ngrams, count_ngrams(ref_ngrams)), Len(cand_ngrams)>>

\* bleu_score: (p1 + p2) / 2
bleu_score(reference, cand) ==
    LET p1 == ngram_precision(reference, cand, 1)
        p2 == ngram_precision(reference, cand, 2)
    IN  <<p1[1] * p2[2] + p2[1] * p1[2], 2 * p1[2] * p2[2]>>

\* SummaryEvaluator.evaluate(summary, test_case): the EvaluationResult, or the
\* error validate_length raises.  A failure message is named by its check.
evaluate(summary, tc) ==
    LET th == tc.thresholds
        similarity == composite_similarity(summary, tc.golden_summary)
        failures1 == IF similarity < th.min_semantic_similarity
                     THEN <<"similarity">> ELSE <<>>
        bleu == bleu_score(summary, tc.golden_summary)
        length_check == validate_length(summary, th.min_length_words, th.max_length_words)
    IN  IF length_check.kind = "raised" THEN length_check
        ELSE
        LET failures2 == IF ~length_check.value.passed
                         THEN Append(failures1, "length") ELSE failures1
            required_terms == contains_required_terms(summary, th.required_terms)
            failures == IF ~required_terms.passed
                        THEN Append(failures2, "required_terms") ELSE failures2
        IN  Returned([passed |-> Len(failures) = 0,
                      similarity |-> similarity,
                      bleu |-> bleu,
                      length_check |-> length_check.value,
                      required_terms |-> required_terms,
                      failures |-> failures])

\* a call of evaluate(candidate, test_case)
Evaluate ==
    /\ op' = Op("evaluate", NoId)
    /\ result' = evaluate(candidate, test_case)
    /\ UNCHANGED evaluatorVars
    /\ UNCHANGED <<collectorVars, aggregatorVars, percentileVars, threads>>

\* the summaries and test cases explored
Texts(n) == UNION {[1..k -> Chars] : k \in 0..n}
GoldenSummaries == { <<"a", " ", "b">>, <<"A">> }
LengthBounds == { <<0, 1>>, <<1, 2>>, <<2, 1>>, <<-1, 2>> }
RequiredTermLists == { <<>>, << <<"a">> >>, << <<"A">>, <<"b">> >> }
MinSimilarities == {0, 50, 80}
TestCases ==
    { [golden_summary |-> g,
       thresholds |-> [min_semantic_similarity |-> s,
                       min_length_words |-> b[1],
                       max_length_words |-> b[2],
                       required_terms |-> t]] :
        g \in GoldenSummaries, s \in MinSimilarities,
        b \in LengthBounds, t \in RequiredTermLists }

\* the n of the n-grams asked for
NgramSizes == 1..3

\* a call of ngram_precision(reference, candidate, n)
NgramPrecision ==
    /\ \E n \in NgramSizes :
          result' = ReturnedFor(n, ngram_precision(test_case.golden_summary, candidate, n))
    /\ op' = Op("ngram_precision", NoId)
    /\ UNCHANGED evaluatorVars
    /\ UNCHANGED <<collectorVars, aggregatorVars, percentileVars, threads>>

\* a call of jaccard_similarity(text1, text2)
JaccardSimilarity ==
    /\ result' = Returned(jaccard_similarity(candidate, test_case.golden_summary))
    /\ op' = Op("jaccard_similarity", NoId)
    /\ UNCHANGED evaluatorVars
    /\ UNCHANGED <<collectorVars, aggregatorVars, percentileVars, threads>>

\* a call of overlap_coefficient(text1, text2)
OverlapCoefficient ==
    /\ result' = Returned(overlap_coefficient(candidate, test_case.golden_summary))
    /\ op' = Op("overlap_coefficient", NoId)
    /\ UNCHANGED evaluatorVars
    /\ UNCHANGED <<collectorVars, aggregatorVars, percentileVars, threads>>

\* a call of _percentile(sorted_values, p)
Percentile ==
    /\ op' = Op("percentile", NoId)
    /\ result' = Returned(percentile(sample, percent))
    /\ UNCHANGED percentileVars
    /\ UNCHANGED <<collectorVars, aggregatorVars, evaluatorVars, threads>>

\* the concurrent callers of one collector or one aggregator, and a caller
\* that is in no call
Threads == {"t1", "t2"}
Idle == [pc |-> "idle"]

(***************************************************************************)
(* RequestHandle.end called from two threads.  A call takes three steps:   *)
(* the lookup of lines 206-208, the update of the metric object and its    *)
(* append to the finalized list (lines 210-224), and the del of line 225.  *)
(* The metric is one object: the in-flight map and the finalized list hold *)
(* references to it, so an update shows in every place that holds it.      *)
(***************************************************************************)
\* the caller holds a lock of its own per request id around end(): it does
\* not enter end() while the other caller is inside end() for the same id
MayEnter(t, request_id) ==
    threads[t].exclusive =>
        \A u \in Threads \ {t} :
            ~(threads[u].pc \in {"found", "appended"} /\ threads[u].id = request_id)

\* the metric object of a request: the in-flight map holds it until the del,
\* the finalized list after the append
MetricObject(request_id) ==
    IF request_id \in DOMAIN active_requests
    THEN active_requests[request_id]
    ELSE LET held == SelectSeq(metrics, LAMBDA m : m.request_id = request_id)
         IN  held[Len(held)]

\* self._metrics.append(metric) that leaves out a metric the list holds
append_once(ms, metric) ==
    IF \E i \in 1..Len(ms) : ms[i].request_id = metric.request_id
    THEN ms
    ELSE Append(ms, metric)

\* line 224: self._metrics.append(metric)
append(ms, metric) == Append(ms, metric)

\* lines 206-208: metric = self._active_requests.get(request_id), and the
\* ValueError when there is none
EndLookup(t) ==
    /\ threads[t].pc = "idle"
    /\ \E h \in 1..Len(handles), args \in EndArguments :
          /\ MayEnter(t, handles[h])
          /\ op' = Op("end", handles[h])
          /\ IF handles[h] \notin DOMAIN active_requests
             THEN /\ threads' = [threads EXCEPT ![t] =
                                   [pc |-> "done", exclusive |-> threads[t].exclusive,
                                    handle |-> h, id |-> handles[h],
                                    usage |-> args[1], error |-> args[2],
                                    found |-> FALSE, outcome |-> NotFound]]
                  /\ result' = NotFound
             ELSE /\ threads' = [threads EXCEPT ![t] =
                                   [pc |-> "found", exclusive |-> threads[t].exclusive,
                                    handle |-> h, id |-> handles[h],
                                    usage |-> args[1], error |-> args[2],
                                    found |-> TRUE, outcome |-> NoResult]]
                  /\ result' = NoResult
    /\ UNCHANGED collectorVars
    /\ UNCHANGED <<aggregatorVars, evaluatorVars, percentileVars>>

\* lines 210-224: the metric object is updated and appended
EndAppend(t) ==
    /\ threads[t].pc = "found"
    /\ LET request_id == threads[t].id
           metric == FinalizedMetric(MetricObject(request_id), now,
                                     threads[t].usage, threads[t].error)
           updated == [i \in 1..Len(metrics) |->
                          IF metrics[i].request_id = request_id THEN metric ELSE metrics[i]]
       IN  /\ metrics' = append(updated, metric)
           /\ active_requests' = IF request_id \in DOMAIN active_requests
                                  THEN DictSet(active_requests, request_id, metric)
                                  ELSE active_requests
           /\ op' = Op("end", request_id)
    /\ threads' = [threads EXCEPT ![t].pc = "appended"]
    /\ result' = NoResult
    /\ UNCHANGED <<request_counter, now, handles, endCount>>
    /\ UNCHANGED <<aggregatorVars, evaluatorVars, percentileVars>>

\* line 225: del self._active_requests[request_id], a KeyError when the
\* entry is gone
EndDelete(t) ==
    /\ threads[t].pc = "appended"
    /\ op' = Op("end", threads[t].id)
    /\ IF threads[t].id \in DOMAIN active_requests
       THEN /\ active_requests' = DictDel(active_requests, threads[t].id)
            /\ endCount' = [endCount EXCEPT ![threads[t].handle] = @ + 1]
            /\ threads' = [threads EXCEPT ![t].pc = "done", ![t].outcome = Returned(None)]
            /\ result' = Returned(None)
       ELSE /\ threads' = [threads EXCEPT ![t].pc = "done",
                                          ![t].outcome = Raised("KeyError", "request id")]
            /\ result' = Raised("KeyError", "request id")
            /\ UNCHANGED <<active_requests, endCount>>
    /\ UNCHANGED <<metrics, request_counter, now, handles>>
    /\ UNCHANGED <<aggregatorVars, evaluatorVars, percentileVars>>

(***************************************************************************)
(* record_test_run called from two threads.  A call takes three steps:     *)
(* line 166 reads the file, open(..., 'w') of line 217 empties it, and     *)
(* json.dump with the close of the file (line 218) writes the caller's     *)
(* text at offset 0.                                                       *)
(***************************************************************************)
RECURSIVE Digits(_)
\* the number of characters of str(k), k >= 0
Digits(k) == IF k < 10 THEN 1 ELSE 1 + Digits(k \div 10)

\* characters of one item that vary with the run, among the runs the threads
\* record (they differ in timestamp, total_tests and passed only)
ItemSize(item) == Digits(item.total_tests) + Digits(item.passed)

\* length of the text json.dump writes for the content, up to the part that
\* is the same for every item; an empty or unparsable file counts as empty
JsonSize(file) ==
    IF file.kind = "array"
    THEN SumSeq([i \in 1..Len(file.items) |-> ItemSize(file.items[i])])
    ELSE 0

\* the file an open(..., 'w') leaves: empty, so json.load fails on it
Truncated == [kind |-> "unreadable", items |-> <<>>]

\* a writer whose text is merged with the text already in the file
written_content_merged(current, mine) ==
    IF current.kind = "array"
    THEN [kind |-> "array", items |-> current.items \o mine.items]
    ELSE mine

\* the file after a writer that opened it before the text now in it was
\* written puts its own text at offset 0: its text alone if that is at
\* least as long, else its text followed by the rest of the other text,
\* which is no JSON
written_content(current, mine) ==
    IF JsonSize(current) > JsonSize(mine)
    THEN [kind |-> "unreadable", items |-> <<>>]
    ELSE mine

\* the run thread t records with n tests
WriterRun(t, n) ==
    [TestRun(DateTime(IF t = "t1" THEN 1 ELSE 2), n, n, Some(85), Some(500))
       EXCEPT !.failed = 0]
TestCounts == {10, 1000}

OtherThread(t) == CHOOSE u \in Threads : u # t

\* lines 166-171: the caller loads the history and appends its run
RecordLoad(t) ==
    /\ threads[t].pc = "idle"
    /\ \E n \in TestCounts :
          threads' = [threads EXCEPT ![t] =
                        [pc |-> "loaded",
                         run |-> WriterRun(t, n),
                         history |-> history_after_record(history_file, WriterRun(t, n)),
                         other_at_load |-> threads[OtherThread(t)].pc]]
    /\ op' = Op("record_test_run: load", NoId)
    /\ result' = NoResult
    /\ UNCHANGED aggregatorVars
    /\ UNCHANGED <<collectorVars, evaluatorVars, percentileVars>>

\* line 217: open(self.history_file, 'w')
RecordOpen(t) ==
    /\ threads[t].pc = "loaded"
    /\ threads' = [threads EXCEPT ![t].pc = "writing"]
    /\ history_file' = Truncated
    /\ op' = Op("record_test_run: open", NoId)
    /\ result' = NoResult
    /\ UNCHANGED <<thresholds, recorded>>
    /\ UNCHANGED <<collectorVars, evaluatorVars, percentileVars>>

\* line 218: json.dump(serializable, f, indent=2) and the close of the file
RecordDump(t) ==
    /\ threads[t].pc = "writing"
    /\ threads' = [threads EXCEPT ![t].pc = "done"]
    /\ history_file' = written_content(history_file, save_history(threads[t].history))
    /\ recorded' = Append(recorded, threads[t].run)
    /\ op' = Op("record_test_run", NoId)
    /\ result' = Returned(None)
    /\ UNCHANGED thresholds
    /\ UNCHANGED <<collectorVars, evaluatorVars, percentileVars>>

(***************************************************************************)
(* Initial values                                                          *)
(***************************************************************************)
\* a fresh PerformanceCollector, a fresh MetricsAggregator over the file
\* _ensure_data_dir wrote, and no evaluate() call made
Init ==
    /\ metrics = <<>>
    /\ active_requests = EmptyDict
    /\ request_counter = 0
    /\ now = 0
    /\ handles = <<>>
    /\ endCount = <<>>
    /\ history_file = EmptyFile
    /\ thresholds = DefaultThresholds
    /\ recorded = <<>>
    /\ candidate = <<>>
    /\ test_case = CHOOSE tc \in TestCases : TRUE
    /\ sample = <<>>
    /\ percent = 0
    /\ threads = [t \in Threads |-> Idle]
    /\ op = Op("init", NoId)
    /\ result = NoResult

(***************************************************************************)
(* SpecCollector: one PerformanceCollector used from a single thread       *)
(***************************************************************************)
CollectorNext ==
    \/ start_request
    \/ handle_end
    \/ foreign_end
    \/ record_metric
    \/ clear
    \/ GenerateReport
    \/ Tick


SpecCollector ==
    Init /\ [][CollectorNext]_vars

(***************************************************************************)
(* SpecLifecycle: one PerformanceCollector on which requests are started   *)
(* and ended only (no clear, no record_metric)                             *)
(***************************************************************************)
LifecycleNext ==
    \/ start_request
    \/ handle_end
    \/ foreign_end
    \/ Tick

SpecLifecycle ==
    Init /\ [][LifecycleNext]_vars

(***************************************************************************)
(* SpecSLO: requests started and ended on one collector, and check_slo     *)
(* called with every SLO of SLOs                                           *)
(***************************************************************************)
SLONext ==
    \/ start_request
    \/ handle_end
    \/ Tick
    \/ CheckSLO

SpecSLO ==
    Init /\ [][SLONext]_vars

(***************************************************************************)
(* SpecStatus: requests ended with and without an error text, the status   *)
(* filter and the report                                                   *)
(***************************************************************************)
StatusNext ==
    \/ start_request
    \/ handle_end
    \/ Tick
    \/ GetMetricsByStatus
    \/ GenerateReport

SpecStatus ==
    Init /\ [][StatusNext]_vars

(***************************************************************************)
(* SpecEvaluator: evaluate() on every summary and test case of the bounds  *)
(***************************************************************************)
EvaluatorInputs ==
    /\ metrics = <<>>
    /\ active_requests = EmptyDict
    /\ request_counter = 0
    /\ now = 0
    /\ handles = <<>>
    /\ endCount = <<>>
    /\ history_file = EmptyFile
    /\ thresholds = DefaultThresholds
    /\ recorded = <<>>
    /\ candidate \in Texts(MaxTextLen)
    /\ test_case \in TestCases
    /\ sample = <<>>
    /\ percent = 0
    /\ threads = [t \in Threads |-> Idle]
    /\ op = Op("init", NoId)
    /\ result = NoResult

EvaluatorNext == Evaluate

SpecEvaluator ==
    EvaluatorInputs /\ [][EvaluatorNext]_vars


(***************************************************************************)
(* SpecTextMetrics: ngram_precision, jaccard_similarity and                *)
(* overlap_coefficient on every pair of texts of up to MaxWords words      *)
(***************************************************************************)
MaxWords == 3

\* the words texts are written with, and a text as its words with blanks between
Words == { <<"a">>, <<"b">>, <<"A", "b">> }
RECURSIVE Joined(_)
Joined(words) ==
    IF words = <<>> THEN <<>>
    ELSE IF Len(words) = 1 THEN words[1]
    ELSE words[1] \o <<" ">> \o Joined(Tail(words))
WordTexts == {Joined(ws) : ws \in UNION {[1..k -> Words] : k \in 0..MaxWords}}

TextMetricsInputs ==
    /\ metrics = <<>>
    /\ active_requests = EmptyDict
    /\ request_counter = 0
    /\ now = 0
    /\ handles = <<>>
    /\ endCount = <<>>
    /\ history_file = EmptyFile
    /\ thresholds = DefaultThresholds
    /\ recorded = <<>>
    /\ candidate \in WordTexts
    /\ \E g \in WordTexts :
          test_case = [golden_summary |-> g,
                       thresholds |-> [min_semantic_similarity |-> 0,
                                       min_length_words |-> 0,
                                       max_length_words |-> MaxWords,
                                       required_terms |-> <<>>]]
    /\ sample = <<>>
    /\ percent = 0
    /\ threads = [t \in Threads |-> Idle]
    /\ op = Op("init", NoId)
    /\ result = NoResult

TextMetricsNext ==
    \/ NgramPrecision
    \/ JaccardSimilarity
    \/ OverlapCoefficient

SpecTextMetrics ==
    TextMetricsInputs /\ [][TextMetricsNext]_vars

(***************************************************************************)
(* SpecAggregator: one MetricsAggregator with a single writer.  Histories  *)
(* explored: every history of up to MaxRuns runs, and a steady baseline of *)
(* identical runs followed by one run of any kind (the shape of the unit   *)
(* tests), up to MaxSteadyRuns runs.                                       *)
(***************************************************************************)
MaxRuns == 2
MaxSteadyRuns == 12

\* the run the unit tests record as their baseline
SteadyRun == TestRun(DateTime(0), 10, 10, Some(85), Some(500))

\* runs recorded: the steady run with one aspect changed, and a run whose
\* similarity is 0 while its latency rises
RunValues ==
    {SteadyRun}
    \cup {[SteadyRun EXCEPT !.avg_similarity = v] : v \in {None, Some(0), Some(50), Some(70), Some(75), Some(90)}}
    \cup {[SteadyRun EXCEPT !.avg_latency = v] : v \in {None, Some(750), Some(1500)}}
    \cup {[SteadyRun EXCEPT !.passed = 9, !.failed = 1],
          [SteadyRun EXCEPT !.passed = 8, !.failed = 2],
          [SteadyRun EXCEPT !.total_tests = 0, !.passed = 0]}
    \cup {[SteadyRun EXCEPT !.avg_similarity = Some(0), !.avg_latency = Some(1500)]}

\* thresholds set_thresholds is called with
ThresholdChoices ==
    { DefaultThresholds,
      [DefaultThresholds EXCEPT !.min_test_runs = 1],
      [DefaultThresholds EXCEPT !.min_test_runs = 11],
      [similarity_drop |-> <<1, 5>>, latency_increase |-> <<1, 2>>,
       pass_rate_drop |-> <<1, 10>>, min_test_runs |-> 1] }

IsSteady(history) == \A i \in 1..Len(history) : history[i] = SteadyRun

RecordRun ==
    LET history == load_history(history_file)
    IN  /\ \/ Len(history) < MaxRuns
           \/ Len(history) < MaxSteadyRuns /\ IsSteady(history)
        /\ \E run \in RunValues : record_test_run(run)

SetThresholds == \E th \in ThresholdChoices : set_thresholds(th)

AggregatorNext ==
    \/ RecordRun
    \/ SetThresholds
    \/ clear_history
    \/ CheckForRegressions
    \/ GetRecentRuns
    \/ CalculateBaseline

SpecAggregator ==
    Init /\ [][AggregatorNext]_vars

(***************************************************************************)
(* SpecQueries: the query operations of a collector and of an aggregator   *)
(* whose history file is empty, damaged or holds runs                      *)
(***************************************************************************)
\* a run as another writer stores it, with a UTC timestamp
UtcRun == [SteadyRun EXCEPT !.timestamp = [secs |-> 0, tz |-> "+00:00"]]

QueryFiles ==
    CorruptContents
        \cup {EmptyFile,
              save_history(<<SteadyRun>>),
              save_history(<<SteadyRun, SteadyRun, SteadyRun,
                             [SteadyRun EXCEPT !.avg_similarity = Some(70)]>>),
              save_history(<<UtcRun, UtcRun, UtcRun,
                             [UtcRun EXCEPT !.total_tests = 0, !.passed = 0]>>)}

QueriesInit ==
    /\ metrics = <<>>
    /\ active_requests = EmptyDict
    /\ request_counter = 0
    /\ now = 0
    /\ handles = <<>>
    /\ endCount = <<>>
    /\ history_file \in QueryFiles
    /\ thresholds = DefaultThresholds
    /\ recorded = load_history(history_file)
    /\ candidate = <<>>
    /\ test_case = CHOOSE tc \in TestCases : TRUE
    /\ sample = <<>>
    /\ percent = 0
    /\ threads = [t \in Threads |-> Idle]
    /\ op = Op("init", NoId)
    /\ result = NoResult

\* a lenient and a strict SLO
QuerySLOs ==
    { PerformanceSLO(1, 1, <<1, 2>>, None, None),
      PerformanceSLO(0, 0, <<0, 1>>, Some(1500), Some(1)) }

QueriesNext ==
    \/ start_request
    \/ handle_end
    \/ GenerateReport
    \/ GenerateReportText
    \/ CheckSLOAmong(QuerySLOs)
    \/ GetMetrics
    \/ GetMetricsByStatus
    \/ GetMetricsByModel
    \/ GetRecentRuns
    \/ GetRunsForPeriod
    \/ CalculateBaseline
    \/ CheckForRegressions
    \/ GenerateDashboard
    \/ ExportPrometheusMetrics

SpecQueries ==
    QueriesInit /\ [][QueriesNext]_vars

(***************************************************************************)
(* SpecDashboard: generate_dashboard() over the histories of               *)
(* SpecAggregator                                                          *)
(***************************************************************************)
DashboardNext ==
    \/ RecordRun
    \/ SetThresholds
    \/ clear_history
    \/ GenerateDashboard

SpecDashboard ==
    Init /\ [][DashboardNext]_vars

(***************************************************************************)
(* SpecPercentile: _percentile on the samples 1..n, n up to MaxSample, and *)
(* every whole percentile                                                  *)
(***************************************************************************)
MaxSample == 25

Samples == {[i \in 1..n |-> i] : n \in 0..MaxSample}
Percents == 0..100

PercentileInputs ==
    /\ metrics = <<>>
    /\ active_requests = EmptyDict
    /\ request_counter = 0
    /\ now = 0
    /\ handles = <<>>
    /\ endCount = <<>>
    /\ history_file = EmptyFile
    /\ thresholds = DefaultThresholds
    /\ recorded = <<>>
    /\ candidate = <<>>
    /\ test_case = CHOOSE tc \in TestCases : TRUE
    /\ sample \in Samples
    /\ percent \in Percents
    /\ threads = [t \in Threads |-> Idle]
    /\ op = Op("init", NoId)
    /\ result = NoResult

PercentileNext == Percentile

SpecPercentile ==
    PercentileInputs /\ [][PercentileNext]_vars

(***************************************************************************)
(* SpecTrend: every history of up to MaxTrendRuns runs that differ in      *)
(* their similarity only, queried with calculate_baseline                  *)
(***************************************************************************)
MaxTrendRuns == 5

\* avg_similarity of the runs recorded: absent, 0.0, 0.50 and 0.75
TrendSimilarities == {None, Some(0), Some(50), Some(75)}

RecordTrendRun ==
    /\ Len(load_history(history_file)) < MaxTrendRuns
    /\ \E v \in TrendSimilarities :
           record_test_run([SteadyRun EXCEPT !.avg_similarity = v])

TrendNext ==
    \/ RecordTrendRun
    \/ SetThresholds
    \/ CalculateBaseline

SpecTrend ==
    Init /\ [][TrendNext]_vars

(***************************************************************************)
(* SpecCorruption: one MetricsAggregator whose history file is damaged     *)
(* between its operations                                                  *)
(***************************************************************************)
CorruptionNext ==
    \/ RecordRun
    \/ SetThresholds
    \/ clear_history
    \/ CheckForRegressions
    \/ GetRecentRuns
    \/ CalculateBaseline
    \/ CorruptHistory

SpecCorruption ==
    Init /\ [][CorruptionNext]_vars

(***************************************************************************)
(* SpecWriters: two threads call record_test_run once each on one history  *)
(* file that holds no run or one run                                       *)
(***************************************************************************)
WritersInit ==
    /\ metrics = <<>>
    /\ active_requests = EmptyDict
    /\ request_counter = 0
    /\ now = 0
    /\ handles = <<>>
    /\ endCount = <<>>
    /\ history_file \in {EmptyFile, save_history(<<SteadyRun>>)}
    /\ recorded = load_history(history_file)
    /\ thresholds = DefaultThresholds
    /\ candidate = <<>>
    /\ test_case = CHOOSE tc \in TestCases : TRUE
    /\ sample = <<>>
    /\ percent = 0
    /\ threads = [t \in Threads |-> Idle]
    /\ op = Op("init", NoId)
    /\ result = NoResult

WritersNext ==
    \E t \in Threads :
        \/ RecordLoad(t)
        \/ RecordOpen(t)
        \/ RecordDump(t)

SpecWriters ==
    WritersInit /\ [][WritersNext]_vars

(***************************************************************************)
(* SpecEnders: requests started on one collector and two threads that call *)
(* end() once each, both with or both without a lock per request id        *)
(***************************************************************************)
EndersInit ==
    /\ metrics = <<>>
    /\ active_requests = EmptyDict
    /\ request_counter = 0
    /\ now = 0
    /\ handles = <<>>
    /\ endCount = <<>>
    /\ history_file = EmptyFile
    /\ thresholds = DefaultThresholds
    /\ recorded = <<>>
    /\ candidate = <<>>
    /\ test_case = CHOOSE tc \in TestCases : TRUE
    /\ sample = <<>>
    /\ percent = 0
    /\ \E locked \in BOOLEAN :
          threads = [t \in Threads |-> [pc |-> "idle", exclusive |-> locked]]
    /\ op = Op("init", NoId)
    /\ result = NoResult

\* start_request while no thread is inside end()
EndersStart ==
    /\ \A t \in Threads : threads[t].pc \in {"idle", "done"}
    /\ start_request

EndersNext ==
    \/ EndersStart
    \/ Tick
    \/ \E t \in Threads :
          \/ EndLookup(t)
          \/ EndAppend(t)
          \/ EndDelete(t)

SpecEnders ==
    EndersInit /\ [][EndersNext]_vars

(***************************************************************************)
(* SpecRetention: numbered runs recorded past the retention cap            *)
(***************************************************************************)
MaxRecords == 102

\* the k-th run recorded since the store was empty carries timestamp k
RecordNumbered ==
    /\ Len(recorded) < MaxRecords
    /\ record_test_run([SteadyRun EXCEPT !.timestamp = DateTime(Len(recorded) + 1)])

RetentionNext ==
    \/ RecordNumbered
    \/ SetThresholds
    \/ clear_history

SpecRetention ==
    Init /\ [][RetentionNext]_vars

(***************************************************************************)
(* Properties of PerformanceCollector (checked under SpecCollector)        *)
(***************************************************************************)

\* C1: end() on a handle whose request id is not in the in-flight map raises
\* and leaves the finalized list and the in-flight map unchanged, and so no
\* handle finalizes more than one metric.
C1_UnknownEndFailsAndHandleEndsOnce ==
    [][ /\ (op'.name = "end" /\ op'.id \notin DOMAIN active_requests)
            => /\ result'.kind = "raised"
               /\ metrics' = metrics
               /\ active_requests' = active_requests
        /\ \A h \in 1..Len(endCount') : endCount'[h] <= 1 ]_vars

\* a successful metric that carries latency data is in the list
HasSuccessfulLatency(ms) ==
    \E i \in 1..Len(ms) : ms[i].success /\ ms[i].latency # None

\* C2: generate_report() raises one error on an empty list, a different error
\* on a non-empty list with no successful metric that has latency, and returns
\* a report over all the metrics otherwise; a call that raises changes nothing.
C2_GenerateReportOutcome ==
    [][ op'.name = "generate_report" =>
          /\ Len(metrics) = 0 =>
                result'.kind = "raised" /\ result'.msg = NoMetricsError.msg
          /\ (Len(metrics) > 0 /\ ~HasSuccessfulLatency(metrics)) =>
                /\ result'.kind = "raised"
                /\ result'.msg = NoLatencyError.msg
                /\ result'.msg # NoMetricsError.msg
          /\ HasSuccessfulLatency(metrics) =>
                /\ result'.kind = "returned"
                /\ result'.value.total_requests = Len(metrics)
                /\ result'.value.successful_requests >= 1
          /\ result'.kind = "raised" =>
                /\ metrics' = metrics
                /\ active_requests' = active_requests
                /\ request_counter' = request_counter ]_vars

\* C2 witness: generate_report() has raised on a non-empty list that holds
\* no successful metric with latency
C2_RaisedOnUnmeasuredList ==
    /\ op.name = "generate_report"
    /\ Len(metrics) > 0
    /\ ~HasSuccessfulLatency(metrics)
    /\ result.kind = "raised"

(***************************************************************************)
(* Properties of MetricsAggregator's store (checked under SpecRetention)   *)
(***************************************************************************)

\* C3: after k record_test_run calls on an empty store the persisted history
\* is the most recent min(k, 100) recorded runs, in the order recorded.
C3_HistoryIsLastHundred ==
    LET k == Len(recorded)
        kept == Min(k, 100)
        history == load_history(history_file)
    IN  /\ Len(history) = kept
        /\ Len(history) <= 100
        /\ \A i \in 1..kept : history[i] = recorded[k - kept + i]

\* C3 witness: more runs than the cap have been recorded, the last one just now
C3_RecordedPastCap ==
    /\ op.name = "record_test_run"
    /\ Len(recorded) > 100
    /\ Len(load_history(history_file)) = 100

(***************************************************************************)
(* Properties of SummaryEvaluator (checked under SpecEvaluator)            *)
(***************************************************************************)

ValidLengthBounds(th) ==
    /\ th.min_length_words >= 0
    /\ th.max_length_words >= th.min_length_words

\* every required term occurs in the summary as a whole word, in any case
AllTermsPresent(summary, terms) ==
    \A i \in 1..Len(terms) : SearchWholeWord(Lower(terms[i]), Lower(summary))

\* C4: with valid length bounds evaluate() returns a result whose passed is
\* true iff its failure list is empty, iff similarity >= the minimum, the word
\* count is within the bounds and every required term is present; each check
\* alone decides its failure, so the BLEU score decides nothing.
C4_PassedIffAllChecks ==
    (op.name = "evaluate" /\ ValidLengthBounds(test_case.thresholds)) =>
        /\ result.kind = "returned"
        /\ LET r == result.value
               th == test_case.thresholds
               word_count == Len(tokenize(candidate))
               similar == composite_similarity(candidate, test_case.golden_summary)
                              >= th.min_semantic_similarity
               fits == th.min_length_words <= word_count
                          /\ word_count <= th.max_length_words
               present == AllTermsPresent(candidate, th.required_terms)
           IN  /\ r.passed <=> (r.failures = <<>>)
               /\ r.passed <=> (similar /\ fits /\ present)
               /\ similar <=> ("similarity" \notin Range(r.failures))
               /\ fits <=> ("length" \notin Range(r.failures))
               /\ present <=> ("required_terms" \notin Range(r.failures))

\* C4 witness: a summary with a perfect BLEU score has failed on length alone
C4_FailedOnLengthAlone ==
    /\ op.name = "evaluate"
    /\ result.kind = "returned"
    /\ ~result.value.passed
    /\ result.value.failures = <<"length">>
    /\ result.value.bleu[1] = result.value.bleu[2]

(***************************************************************************)
(* Properties of check_for_regressions() (checked under SpecAggregator)    *)
(***************************************************************************)

CheckCalled == op.name = "check_for_regressions"
History == load_history(history_file)
Latest == History[Len(History)]

\* the call went past both early returns, into its three checks
ChecksRun == CheckCalled /\ (result.kind = "raised" \/ result.path = "checked")

\* the alerts the call returned for one metric
AlertsOf(metric) ==
    IF result.kind = "returned"
    THEN SelectSeq(result.value, LAMBDA alert : alert.metric = metric)
    ELSE <<>>

\* the baseline the call computed
Baseline == regression_baseline(history_file, thresholds)[1]

\* (current - baseline) / baseline < bound and <= bound, for baseline >= 0,
\* without the division: current - baseline < bound * baseline
RelativeChangeBelow(current, baseline, bound) ==
    RLess(RSub(<<current, 1>>, baseline),
          <<bound[1] * baseline[1], bound[2] * baseline[2]>>)
RelativeChangeAtMost(current, baseline, bound) ==
    RLeq(RSub(<<current, 1>>, baseline),
         <<bound[1] * baseline[1], bound[2] * baseline[2]>>)

\* C5: check_for_regressions() never raises: on every history of well-formed
\* runs and under every thresholds it returns a list of alerts.
C5_CheckNeverRaises ==
    CheckCalled => result.kind = "returned"

\* the history of the example: five runs at 0.85 and then one at 0.70
FiveSteadyThenLowSimilarity ==
    [i \in 1..6 |-> IF i <= 5 THEN SteadyRun
                    ELSE [SteadyRun EXCEPT !.avg_similarity = Some(70)]]

C7_LatencyAlert ==
    ChecksRun =>
        LET alerts == AlertsOf("latency")
            baseline == Baseline.avg_latency
            expected ==
                /\ Latest.avg_latency # None
                /\ baseline[1] > 0
                /\ ~RelativeChangeAtMost(Latest.avg_latency[1], baseline,
                                         thresholds.latency_increase)
        IN  /\ Len(alerts) = IF expected THEN 1 ELSE 0
            /\ \A i \in 1..Len(alerts) :
                  alerts[i].severity =
                      IF ~RelativeChangeBelow(Latest.avg_latency[1], baseline, <<50, 100>>)
                      THEN "critical" ELSE "warning"

\* passed / total_tests, 0 when total_tests is 0
PassRate(run) == IF run.total_tests > 0 THEN <<run.passed, run.total_tests>> ELSE <<0, 1>>

\* C8: when the checks run (and return) there is a 'pass_rate' alert iff
\* latest pass rate - baseline pass rate < -pass_rate_drop; it is critical
\* iff the absolute drop is at least 0.10, a warning otherwise.
C8_PassRateAlert ==
    (ChecksRun /\ result.kind = "returned") =>
        LET alerts == AlertsOf("pass_rate")
            change == RSub(PassRate(Latest), Baseline.avg_pass_rate)
        IN  /\ Len(alerts) =
                  IF RLess(change, RNeg(thresholds.pass_rate_drop)) THEN 1 ELSE 0
            /\ \A i \in 1..Len(alerts) :
                  alerts[i].severity =
                      IF RLeq(change, <<-10, 100>>) THEN "critical" ELSE "warning"

\* C9: under every min_test_runs the three checks are evaluated iff the
\* history holds at least min_test_runs + 1 runs; with fewer runs the call
\* returns the empty list.
C9_ChecksRunIffEnoughHistory ==
    CheckCalled =>
        /\ ChecksRun <=> (Len(History) >= thresholds.min_test_runs + 1)
        /\ Len(History) < thresholds.min_test_runs + 1 =>
              (result.kind = "returned" /\ result.value = <<>>)

\* up to ten runs before the latest one
PriorWindow == LastSlice(SubSeq(History, 1, Len(History) - 1), 10)

\* C10: the baseline an alert reports, the one the latest run was judged
\* against, is the average over the up to 10 runs before the latest run.
C10_BaselineOverPriorRuns ==
    (ChecksRun /\ result.kind = "returned") =>
        \A i \in 1..Len(result.value) :
            LET alert == result.value[i]
                prior == AggregatedMetrics(10, PriorWindow)
            IN  /\ alert.metric = "similarity" => REq(alert.baseline, prior.avg_similarity)
                /\ alert.metric = "latency" => REq(alert.baseline, prior.avg_latency)
                /\ alert.metric = "pass_rate" => REq(alert.baseline, prior.avg_pass_rate)


(***************************************************************************)
(* Properties of get_recent_runs() and calculate_baseline() (checked under *)
(* SpecAggregator)                                                         *)
(***************************************************************************)
RecentCalled == op.name = "get_recent_runs"
BaselineCalled == op.name = "calculate_baseline"

\* the min(count, len(history)) most recently recorded runs, oldest first
MostRecent(history, count) ==
    SubSeq(history, Len(history) - Min(count, Len(history)) + 1, Len(history))

\* the mean of the values present among opts, 0 when none is present
MeanOfPresent(opts) ==
    LET present == SelectSeq(opts, LAMBDA o : o # None)
    IN  IF Len(present) = 0 THEN <<0, 1>>
        ELSE <<SumSeq([i \in 1..Len(present) |-> present[i][1]]), Len(present)>>

\* what C11 says calculate_baseline returns for a window
BaselineOfWindow(window, value) ==
    LET total == SumSeq([i \in 1..Len(window) |-> window[i].total_tests])
        passed == SumSeq([i \in 1..Len(window) |-> window[i].passed])
    IN  IF Len(window) < thresholds.min_test_runs
        THEN value = None
        ELSE /\ value # None
             /\ value[1].test_runs = Len(window)
             /\ REq(value[1].avg_pass_rate,
                    IF total = 0 THEN <<0, 1>> ELSE <<passed, total>>)
             /\ REq(value[1].avg_similarity,
                    MeanOfPresent([i \in 1..Len(window) |-> window[i].avg_similarity]))
             /\ REq(value[1].avg_latency,
                    MeanOfPresent([i \in 1..Len(window) |-> window[i].avg_latency]))

\* C11: calculate_baseline(n) returns None exactly when the window of the n
\* most recent runs holds fewer than min_test_runs runs; otherwise its
\* test_runs is the window's size, avg_pass_rate the sum of passed over the
\* sum of total_tests (0 when that sum is 0), and avg_similarity and
\* avg_latency the means over the window's runs that carry the value (0 when
\* none does).
C11_BaselineOverWindow ==
    BaselineCalled => BaselineOfWindow(MostRecent(History, result.arg), result.value)

\* C11 for run counts of at least 1
C11_ForPositiveRunCounts ==
    BaselineCalled /\ result.arg >= 1
        => BaselineOfWindow(MostRecent(History, result.arg), result.value)

\* C12: for every count >= 0 and every history, get_recent_runs(count)
\* returns exactly the min(count, len(history)) most recently recorded runs,
\* in order, so the window of calculate_baseline(n) never holds more than n
\* runs.
C12_RecentRunsAreLastCount ==
    /\ RecentCalled => result.value = MostRecent(History, result.arg)
    /\ BaselineCalled /\ result.value # None => result.value[1].test_runs <= result.arg

\* C12 for counts of at least 1
C12_ForPositiveCounts ==
    /\ RecentCalled /\ result.arg >= 1 => result.value = MostRecent(History, result.arg)
    /\ BaselineCalled /\ result.arg >= 1 /\ result.value # None
           => result.value[1].test_runs <= result.arg

(***************************************************************************)
(* Properties of the trend of calculate_baseline() (checked under          *)
(* SpecTrend)                                                              *)
(***************************************************************************)
\* the window the returned baseline was computed over
WindowUsed == MostRecent(History, result.value[1].test_runs)

SimilaritiesIn(runs) == [i \in 1..Len(runs) |-> runs[i].avg_similarity]
NoSimilarityIn(runs) == \A i \in 1..Len(runs) : runs[i].avg_similarity = None

\* the trend C13 states for a window
StatedTrend(window) ==
    LET mid == Len(window) \div 2
        first == SubSeq(window, 1, mid)
        second == SubSeq(window, mid + 1, Len(window))
        change == RSub(MeanOfPresent(SimilaritiesIn(second)),
                       MeanOfPresent(SimilaritiesIn(first)))
    IN  IF Len(window) < 5 \/ NoSimilarityIn(first) \/ NoSimilarityIn(second)
        THEN "stable"
        ELSE IF RLess(<<5, 1>>, change) THEN "improving"     \* 0.05, in hundredths
        ELSE IF RLess(change, <<-5, 1>>) THEN "degrading"
        ELSE "stable"

\* C13: the trend is 'stable' when the window holds fewer than 5 runs or
\* when either half of it (the floor(len/2) oldest runs, and the rest) holds
\* no run with a similarity value; in every other case it is 'improving' if
\* the second half's mean similarity exceeds the first half's by more than
\* 0.05, 'degrading' if it is lower by more than 0.05, and 'stable'
\* otherwise.
C13_TrendOfWindow ==
    BaselineCalled /\ result.value # None
        => result.value[1].trend = StatedTrend(WindowUsed)

\* C13 for windows in which no half has a mean similarity of 0.0 over runs
\* that carry a value
NoZeroHalf(window) ==
    LET mid == Len(window) \div 2
        first == SubSeq(window, 1, mid)
        second == SubSeq(window, mid + 1, Len(window))
    IN  /\ NoSimilarityIn(first) \/ MeanOfPresent(SimilaritiesIn(first))[1] # 0
        /\ NoSimilarityIn(second) \/ MeanOfPresent(SimilaritiesIn(second))[1] # 0

C13_WithoutZeroHalves ==
    BaselineCalled /\ result.value # None /\ NoZeroHalf(WindowUsed)
        => result.value[1].trend = StatedTrend(WindowUsed)

(***************************************************************************)
(* Properties of _percentile (checked under SpecPercentile)                *)
(***************************************************************************)
PercentileCalled == op.name = "percentile"

\* ceil(q * n / 100) - 1 clamped into [0, n - 1]
StatedIndex(q, n) == Max(0, Min(((q * n + 99) \div 100) - 1, n - 1))

\* C14: for every non-empty ascending sample of size n and every percentile
\* p in 0..100 the helper returns the element at index ceil(p*n/100) - 1
\* clamped into [0, n-1]; for the sample 1..10, p95 returns 10 and p50
\* returns 5; and the result is non-decreasing in p.
C14_PercentileIndex ==
    PercentileCalled /\ Len(sample) > 0 =>
        /\ result.value = sample[StatedIndex(percent, Len(sample)) + 1]
        /\ Len(sample) = 10 /\ percent = 95 => result.value = 10
        /\ Len(sample) = 10 /\ percent = 50 => result.value = 5
        /\ percent < 100 => result.value <= percentile(sample, percent + 1)

\* the examples and the monotonicity of C14, without the index formula
C14_ExamplesAndMonotone ==
    PercentileCalled /\ Len(sample) > 0 =>
        /\ Len(sample) = 10 /\ percent = 95 => result.value = 10
        /\ Len(sample) = 10 /\ percent = 50 => result.value = 5
        /\ percent < 100 => result.value <= percentile(sample, percent + 1)

\* the index formula of C14 for the percentiles generate_report asks for
C14_IndexOfReportedPercentiles ==
    PercentileCalled /\ Len(sample) > 0 /\ percent \in {50, 95, 99} =>
        result.value = sample[StatedIndex(percent, Len(sample)) + 1]

(***************************************************************************)
(* Properties of check_slo() (checked under SpecSLO)                       *)
(***************************************************************************)
SLOChecked == op.name = "check_slo" /\ result.kind = "returned"

\* the declared bounds of slo that the report breaches
BreachedBounds(report, slo) ==
    {b \in {"max_p95_latency"} : report.p95_latency > slo.max_p95_latency}
    \cup {b \in {"max_p99_latency"} : report.p99_latency > slo.max_p99_latency}
    \cup {b \in {"max_error_rate"} : RLess(slo.max_error_rate, report.error_rate)}
    \cup {b \in {"min_throughput"} :
            /\ slo.min_throughput # None
            /\ RLess(report.requests_per_second, <<slo.min_throughput[1], 1>>)}
    \cup {b \in {"max_cost_per_request"} :
            /\ slo.max_cost_per_request # None
            /\ RLess(<<slo.max_cost_per_request[1], 1>>, report.mean_cost)}

\* the messages of the violation list that name bound b
MessagesFor(violations, b) == SelectSeq(violations, LAMBDA v : v.bound = b)

\* passed iff no violation, and exactly one message per breached bound of
\* the SLO slo
OneMessagePerBreach(value, slo) ==
    /\ value.passed <=> value.violations = <<>>
    /\ \A i \in 1..Len(value.violations) :
          value.violations[i].bound \in BreachedBounds(value.report, slo)
    /\ \A b \in BreachedBounds(value.report, slo) :
          Len(MessagesFor(value.violations, b)) = 1

\* C15: for every SLO and every collector state from which a report can be
\* generated, check_slo() returns passed = true iff the violation list is
\* empty, and the list holds exactly one message for each declared bound
\* the report breaches (p95, p99, error rate, throughput below a declared
\* min_throughput, mean cost above a declared max_cost_per_request, for
\* every declared value of the optional bounds including 0) and no other.
C15_SLOViolations ==
    SLOChecked => OneMessagePerBreach(result.value, result.arg)

\* C15 for SLOs whose max_cost_per_request is not declared as 0
C15_WithoutZeroCostBound ==
    SLOChecked /\ result.arg.max_cost_per_request # Some(0)
        => OneMessagePerBreach(result.value, result.arg)

(***************************************************************************)
(* Properties of the request ids and of the two collections of a collector *)
(***************************************************************************)
\* C16: every start_request() returns a handle whose request id differs
\* from the id of every other request ever started on that collector, for
\* any non-decreasing clock and any interleaving of start_request, end and
\* clear calls, requests started before a clear() included.
C16_RequestIdsUnique ==
    \A i, j \in 1..Len(handles) : i # j => handles[i] # handles[j]

InFlight(id) == id \in DOMAIN active_requests
TimesFinalized(id) == Len(SelectSeq(metrics, LAMBDA m : m.request_id = id))

\* every started request is in the in-flight map if it has not been ended,
\* and exactly once in the finalized list if it has
InExactlyOnePlace ==
    \A h \in 1..Len(handles) :
        IF endCount[h] = 0
        THEN InFlight(handles[h]) /\ TimesFinalized(handles[h]) = 0
        ELSE ~InFlight(handles[h]) /\ TimesFinalized(handles[h]) = 1

\* a successful end() appends the request at the tail of the finalized list
\* and removes it from the in-flight map in the same step
EndMovesRequest ==
    op'.name = "end" /\ result'.kind = "returned" =>
        /\ op'.id \in DOMAIN active_requests
        /\ op'.id \notin DOMAIN active_requests'
        /\ Len(metrics') = Len(metrics) + 1
        /\ SubSeq(metrics', 1, Len(metrics)) = metrics
        /\ metrics'[Len(metrics')].request_id = op'.id

\* a request that is not ended by the step stays in the in-flight map
UnendedStays ==
    \A id \in DOMAIN active_requests :
        ~(op'.name = "end" /\ result'.kind = "returned" /\ op'.id = id)
            => id \in DOMAIN active_requests'

\* C17: after any sequence of start_request and end calls (no clear, no
\* record_metric) every started request is in exactly one place: in the
\* in-flight map if it has not been ended, or exactly once in the finalized
\* list if it has; a successful end() appends the request at the tail of
\* the finalized list and removes it from the in-flight map in the same
\* step, and a request that is never ended stays in the in-flight map in
\* every later state.
C17_OnePlacePerRequest ==
    []InExactlyOnePlace /\ [][EndMovesRequest /\ UnendedStays]_vars

\* one request has been ended by the last step while another, started
\* earlier or later, is still in flight
C17_OneEndedOneInFlight ==
    /\ op.name = "end" /\ result.kind = "returned"
    /\ \E h \in 1..Len(handles) : endCount[h] = 1 /\ handles[h] = op.id
    /\ \E h \in 1..Len(handles) : endCount[h] = 0 /\ InFlight(handles[h])

(***************************************************************************)
(* Properties of a damaged history file (checked under SpecCorruption)     *)
(***************************************************************************)
Damaged == history_file.kind # "array"

\* on a damaged file the queries return their empty-history results
QueriesSeeEmptyHistory ==
    Damaged =>
        /\ op.name = "get_recent_runs" => result = ReturnedFor(result.arg, <<>>)
        /\ op.name = "calculate_baseline" =>
               /\ result.kind = "returned"
               /\ thresholds.min_test_runs > 0 => result.value = None
        /\ op.name = "check_for_regressions" =>
               result.kind = "returned" /\ result.value = <<>>

\* on a damaged file record_test_run(r) succeeds and leaves a readable
\* history that holds exactly r, and clear_history() an empty one
WritesReplaceDamage ==
    Damaged =>
        /\ op'.name = "record_test_run" =>
               /\ result'.kind = "returned"
               /\ history_file'.kind = "array"
               /\ Len(history_file'.items) = 1
               /\ from_item(history_file'.items[1]) = recorded'[Len(recorded')]
        /\ op'.name = "clear_history" =>
               result'.kind = "returned" /\ history_file' = EmptyFile

BothRecorded == \A t \in Threads : threads[t].pc = "done"

\* both calls loaded the history before either began to save
BothLoadedFirst ==
    \A t \in Threads : threads[t].other_at_load \in {"idle", "loaded"}

\* the calls did not interleave: one began after the other had returned
OneAfterTheOther ==
    \E t \in Threads : threads[t].other_at_load = "done"

\* the history before the two calls, and the two runs
BaseHistory == SubSeq(recorded, 1, Len(recorded) - 2)
Holds(run) == \E i \in 1..Len(History) : History[i] = run
RunsKept == {t \in Threads : Holds(threads[t].run)}

\* C19 as stated: record_test_run is a non-atomic load / append / save of
\* the whole history: if two calls interleave so that both load the history
\* before either saves, the final persisted history contains only one of
\* the two recorded runs (a lost write); when calls never interleave, every
\* recorded run is present in the history.
C19_ExactlyOneRunSurvives ==
    BothRecorded =>
        /\ BothLoadedFirst => Cardinality(RunsKept) = 1
        /\ OneAfterTheOther => History = recorded

\* C19, amended: if both calls load before either saves, the final history
\* holds at most one of the two runs: either the history loaded followed
\* by the run of one call, or, when the shorter text was written last over
\* the longer one, a file that cannot be read, which holds no run at all;
\* when the calls do not interleave every recorded run is present.
C19_AtMostOneRunSurvives ==
    BothRecorded =>
        /\ BothLoadedFirst =>
              \/ \E t \in Threads : History = Append(BaseHistory, threads[t].run)
              \/ history_file.kind = "unreadable" /\ History = <<>>
        /\ BothLoadedFirst => Cardinality(RunsKept) <= 1
        /\ OneAfterTheOther => History = recorded

\* both calls loaded before either saved and the file ends unreadable
C19_FileLeftUnreadable ==
    BothRecorded /\ BothLoadedFirst /\ history_file.kind = "unreadable"

\* both calls loaded before either saved and one run was lost
C19_OneRunLost ==
    BothRecorded /\ BothLoadedFirst /\ Cardinality(RunsKept) = 1

(***************************************************************************)
(* Properties of concurrent end() calls (checked under SpecEnders)         *)
(***************************************************************************)
\* both threads have finished an end() call on the same request
BothEndedSame ==
    /\ \A t \in Threads : threads[t].pc = "done"
    /\ \A t, u \in Threads : threads[t].id = threads[u].id

EndedId == threads[CHOOSE t \in Threads : TRUE].id
Exclusive == \A t \in Threads : threads[t].exclusive

\* both lookups came before either del
BothLookedUpFirst == \A t \in Threads : threads[t].found

Succeeded == {t \in Threads : threads[t].outcome.kind = "returned"}

\* C20: the collector provides no mutual exclusion for end(): if two
\* contexts call end() on the same handle and both perform the in-flight
\* lookup before either removes the entry, the same request is appended to
\* the finalized list by both calls rather than the second call failing as
\* 'not found'; with mutual exclusion per request id around end(), at most
\* one of the two calls succeeds.
C20_EndNeedsExclusion ==
    BothEndedSame =>
        IF Exclusive
        THEN Cardinality(Succeeded) <= 1 /\ TimesFinalized(EndedId) <= 1
        ELSE BothLookedUpFirst =>
                /\ TimesFinalized(EndedId) = 2
                /\ \A t \in Threads : threads[t].outcome # NotFound

\* without a lock both calls found the request and it was appended twice
C20_AppendedTwice ==
    /\ BothEndedSame
    /\ ~Exclusive
    /\ BothLookedUpFirst
    /\ TimesFinalized(EndedId) = 2

(***************************************************************************)
(* The failure list of evaluate() (checked under SpecEvaluator)            *)
(***************************************************************************)
EvaluateReturned == op.name = "evaluate" /\ result.kind = "returned"

\* the message of a sub-check when it fails, nothing when it passes
MessageIf(failed, message) == IF failed THEN <<message>> ELSE <<>>

SimilarityFails ==
    composite_similarity(candidate, test_case.golden_summary)
        < test_case.thresholds.min_semantic_similarity
LengthFails ==
    LET word_count == Len(tokenize(candidate))
    IN  ~(test_case.thresholds.min_length_words <= word_count
          /\ word_count <= test_case.thresholds.max_length_words)
TermsFail == ~AllTermsPresent(candidate, test_case.thresholds.required_terms)

\* C21: for every evaluate() call that returns, the failure list holds exactly
\* one message per failing sub-check and nothing else, in the order
\* similarity, length, required terms; so it has 0 to 3 entries, and at least
\* two when both the length check and the required-terms check fail.
C21_OneMessagePerFailingCheck ==
    EvaluateReturned =>
        /\ result.value.failures =
              MessageIf(SimilarityFails, "similarity")
                 \o MessageIf(LengthFails, "length")
                 \o MessageIf(TermsFail, "required_terms")
        /\ Len(result.value.failures) \in 0..3
        /\ (LengthFails /\ TermsFail) => Len(result.value.failures) >= 2

\* a summary that failed all three sub-checks
C21_AllThreeFailed ==
    /\ EvaluateReturned
    /\ SimilarityFails /\ LengthFails /\ TermsFail
    /\ result.value.failures = <<"similarity", "length", "required_terms">>

(***************************************************************************)
(* Length validation (checked under SpecEvaluator)                         *)
(***************************************************************************)
EvaluateCalled == op.name = "evaluate"

\* the tokens of a text are its maximal runs of word characters
TokenStarts(text) ==
    {i \in 1..Len(text) : IsWordChar(text[i]) /\ (i = 1 \/ ~IsWordChar(text[i - 1]))}

InvalidLengthBounds(th) ==
    th.min_length_words < 0 \/ th.max_length_words < 0
        \/ th.min_length_words > th.max_length_words

\* C22: validate_length(text, min, max) fails with an invalid-argument error
\* iff min < 0 or max < 0 or min > max, and otherwise returns word_count = the
\* number of tokens of text and passed = (min <= word_count <= max);
\* evaluate() raises exactly when the length bounds of its test case violate
\* this precondition and returns a result for every ordinary threshold failure.
C22_LengthPrecondition ==
    EvaluateCalled =>
        LET th == test_case.thresholds
            checked == validate_length(candidate, th.min_length_words, th.max_length_words)
            word_count == Cardinality(TokenStarts(candidate))
        IN  /\ (checked.kind = "raised") <=> InvalidLengthBounds(th)
            /\ checked.kind = "raised" => checked.type = "ValueError"
            /\ checked.kind # "raised" =>
                  /\ checked.kind = "returned"
                  /\ checked.value.word_count = word_count
                  /\ checked.value.passed <=>
                        (th.min_length_words <= word_count /\ word_count <= th.max_length_words)
            /\ (result.kind = "raised") <=> InvalidLengthBounds(th)
            /\ result.kind = "raised" => result = checked
            /\ result.kind # "raised" =>
                  /\ result.kind = "returned"
                  /\ result.value.length_check = checked.value

\* evaluate() has raised on a test case whose minimum exceeds its maximum
C22_RaisedOnReversedBounds ==
    /\ EvaluateCalled
    /\ result.kind = "raised"
    /\ test_case.thresholds.min_length_words >= 0
    /\ test_case.thresholds.max_length_words >= 0
    /\ test_case.thresholds.min_length_words > test_case.thresholds.max_length_words

(***************************************************************************)
(* BLEU of a text against itself (checked under SpecEvaluator)             *)
(***************************************************************************)
\* evaluate() has returned for a candidate identical to the golden summary
EvaluatedIdentical == EvaluateReturned /\ candidate = test_case.golden_summary

\* C23: for every text that has at least one token the BLEU score of the text
\* against itself is at least 0.95, and evaluate() of a candidate identical to
\* the golden summary reports bleu >= 0.95.
C23_SelfBleuNearOne ==
    (EvaluatedIdentical /\ Len(tokenize(candidate)) >= 1) =>
        /\ RLeq(<<95, 100>>, bleu_score(candidate, candidate))
        /\ RLeq(<<95, 100>>, result.value.bleu)

\* the same for texts of at least two tokens, which have a bigram
C23_SelfBleuWithBigram ==
    (EvaluatedIdentical /\ Len(tokenize(candidate)) >= 2) =>
        /\ REq(<<1, 1>>, bleu_score(candidate, candidate))
        /\ REq(<<1, 1>>, result.value.bleu)

(***************************************************************************)
(* ngram_precision (checked under SpecTextMetrics)                         *)
(***************************************************************************)
NgramPrecisionCalled == op.name = "ngram_precision"

\* the positions of words where an n-gram starts, and those that hold gram
NgramStarts(words, n) == 1..(Len(words) - n + 1)
Occurrences(words, n, gram) ==
    Cardinality({i \in NgramStarts(words, n) : SubSeq(words, i, i + n - 1) = gram})
DistinctNgrams(words, n) ==
    {SubSeq(words, i, i + n - 1) : i \in NgramStarts(words, n)}

\* C24: for every reference, candidate and n >= 1 the number of matches of
\* ngram_precision is the sum over the distinct n-grams g of
\* min(occurrences of g in the candidate, occurrences of g in the reference),
\* the precision is that number divided by the number of candidate n-grams,
\* and it is 0 when the candidate has no n-grams.
C24_ClippedNgramMatches ==
    NgramPrecisionCalled =>
        LET n == result.arg
            reference == tokenize(test_case.golden_summary)
            cand == tokenize(candidate)
            grams == DistinctNgrams(cand, n)
            matches == SumFn([g \in grams |->
                                 Min(Occurrences(cand, n, g), Occurrences(reference, n, g))])
            total == Cardinality(NgramStarts(cand, n))
        IN  IF total = 0
            THEN result.value = <<0, 1>>
            ELSE result.value = <<matches, total>>

\* a candidate that repeats an n-gram more often than the reference holds it
C24_RepeatedNgramClipped ==
    /\ NgramPrecisionCalled
    /\ \E g \in DistinctNgrams(tokenize(candidate), result.arg) :
          /\ Occurrences(tokenize(test_case.golden_summary), result.arg, g) >= 1
          /\ Occurrences(tokenize(candidate), result.arg, g)
                > Occurrences(tokenize(test_case.golden_summary), result.arg, g)
    /\ result.value[1] >= 1
    /\ result.value[1] < result.value[2]

(***************************************************************************)
(* Jaccard similarity and overlap coefficient (checked under               *)
(* SpecTextMetrics)                                                        *)
(***************************************************************************)
JaccardCalled == op.name = "jaccard_similarity"
OverlapCalled == op.name = "overlap_coefficient"
CandidateWords == Range(tokenize(candidate))
GoldenWords == Range(tokenize(test_case.golden_summary))
BothHaveTokens == CandidateWords # {} /\ GoldenWords # {}

\* C25: for all texts a and b that each have at least one token,
\* jaccard_similarity(a, b) <= overlap_coefficient(a, b); both are symmetric in
\* their arguments, both equal 1 when a and b have the same token set, and
\* both are 0 when either text tokenizes to empty.
C25_JaccardAtMostOverlap ==
    /\ JaccardCalled =>
          /\ BothHaveTokens =>
                RLeq(result.value, overlap_coefficient(candidate, test_case.golden_summary))
          /\ REq(result.value, jaccard_similarity(test_case.golden_summary, candidate))
          /\ (BothHaveTokens /\ CandidateWords = GoldenWords) => REq(result.value, <<1, 1>>)
          /\ ~BothHaveTokens => REq(result.value, <<0, 1>>)
    /\ OverlapCalled =>
          /\ BothHaveTokens =>
                RLeq(jaccard_similarity(candidate, test_case.golden_summary), result.value)
          /\ REq(result.value, overlap_coefficient(test_case.golden_summary, candidate))
          /\ (BothHaveTokens /\ CandidateWords = GoldenWords) => REq(result.value, <<1, 1>>)
          /\ ~BothHaveTokens => REq(result.value, <<0, 1>>)

\* texts of different sizes that share a word: Jaccard strictly below overlap
C25_JaccardBelowOverlap ==
    /\ JaccardCalled
    /\ BothHaveTokens
    /\ Cardinality(CandidateWords) < Cardinality(GoldenWords)
    /\ CandidateWords \cap GoldenWords # {}
    /\ RLess(result.value, overlap_coefficient(candidate, test_case.golden_summary))

(***************************************************************************)
(* The status end() records (checked under SpecStatus)                     *)
(***************************************************************************)
\* the step is a call of end(usage, error) on handle h that returns
EndedWith(h, usage, error) ==
    /\ h \in 1..Len(handles)
    /\ handles[h] \in DOMAIN active_requests
    /\ op'.name = "end" /\ op'.id = handles[h]
    /\ result'.kind = "returned"
    /\ metrics' = Append(metrics,
                         FinalizedMetric(active_requests[handles[h]], now, usage, error))

\* the metric the step has finalized
Finalized == metrics'[Len(metrics')]

\* the metric is among the failed of the status filter, and of the report when
\* there is one
CountedAsFailed(ms, metric) ==
    LET failed == get_metrics_by_status(ms, FALSE)
        report == generate_report(ms)
    IN  /\ \E i \in 1..Len(failed) : failed[i] = metric
        /\ report.kind = "returned" =>
              /\ report.value.failed_requests = Len(failed)
              /\ REq(report.value.error_rate, <<Len(failed), Len(ms)>>)

EndRecordsError(h, usage, error) ==
    EndedWith(h, usage, error) =>
        IF error # None
        THEN /\ Finalized.success = FALSE
             /\ Finalized.error = error
             /\ CountedAsFailed(metrics', Finalized)
        ELSE Finalized.success = TRUE

\* C26: whenever end() is called with an error text (any supplied string) the
\* finalized metric records success = false and stores that text, and the
\* request is counted as failed by get_metrics_by_status(False) and by the
\* report's failed_requests and error_rate; when no error is supplied the
\* metric records success = true.
C26_ErrorTextMarksFailure ==
    [][\A h \in 1..MaxHandles, args \in EndArguments :
          EndRecordsError(h, args[1], args[2])]_vars

\* the same for the error texts that are not empty
C26_NonEmptyErrorMarksFailure ==
    [][\A h \in 1..MaxHandles, args \in EndArguments :
          (args[2] = None \/ args[2] # Some("")) => EndRecordsError(h, args[1], args[2])]_vars

\* a request ended with a text is among the failed the status filter returned
C26_FailedRequestListed ==
    /\ op.name = "get_metrics_by_status"
    /\ result.arg = FALSE
    /\ \E i \in 1..Len(result.value) : result.value[i].error = Some("timeout")

(***************************************************************************)
(* The shape of a report (checked under SpecCollector)                     *)
(***************************************************************************)
ReportReturned == op.name = "generate_report" /\ result.kind = "returned"

\* C27: every report returned by generate_report() is well formed:
\* total_requests = successful_requests + failed_requests, error_rate =
\* failed_requests / total_requests with 0 <= error_rate < 1, min_latency <=
\* median_latency <= p95_latency <= p99_latency <= max_latency, and duration
\* is at least 1 millisecond, so both throughput figures are finite.
C27_ReportWellFormed ==
    ReportReturned =>
        LET report == result.value
        IN  /\ report.total_requests = report.successful_requests + report.failed_requests
            /\ report.total_requests = Len(metrics)
            /\ REq(report.error_rate, <<report.failed_requests, report.total_requests>>)
            /\ RLeq(<<0, 1>>, report.error_rate)
            /\ RLess(report.error_rate, <<1, 1>>)
            /\ report.min_latency <= report.median_latency
            /\ report.median_latency <= report.p95_latency
            /\ report.p95_latency <= report.p99_latency
            /\ report.p99_latency <= report.max_latency
            /\ report.duration >= 1
            /\ report.requests_per_second[2] > 0
            /\ report.tokens_per_second[2] > 0

\* a report over one failed and one successful request that all happened
\* within the same millisecond: the duration is the floor of 1 ms
C27_ReportOverInstantRequests ==
    /\ ReportReturned
    /\ result.value.failed_requests = 1
    /\ result.value.successful_requests = 1
    /\ result.value.end_time = result.value.start_time
    /\ result.value.duration = 1

(***************************************************************************)
(* Queries change no state (checked under SpecQueries)                     *)
(***************************************************************************)
CollectorQueries ==
    {"generate_report", "generate_report_text", "check_slo",
     "get_metrics", "get_metrics_by_status", "get_metrics_by_model"}
AggregatorQueries ==
    {"get_recent_runs", "get_runs_for_period", "calculate_baseline",
     "check_for_regressions", "generate_dashboard", "export_prometheus_metrics"}

\* the step is a call of one of the queries, returning or failing
QueryStep(queries) == op'.name \in queries

\* C28: query operations change no state: generate_report,
\* generate_report_text, check_slo, get_metrics, get_metrics_by_status and
\* get_metrics_by_model leave the finalized list, the in-flight map and the
\* counter of the collector unchanged, whether they return or fail, and
\* get_recent_runs, get_runs_for_period, calculate_baseline,
\* check_for_regressions, generate_dashboard and export_prometheus_metrics
\* leave the persisted history unchanged, also when the store is corrupt.
C28_QueriesChangeNoState ==
    [][/\ QueryStep(CollectorQueries) =>
             UNCHANGED <<metrics, active_requests, request_counter>>
       /\ QueryStep(AggregatorQueries) => UNCHANGED history_file]_vars

\* a collector query has failed with a request in flight, on a damaged store
C28_FailedQueryOnDamagedStore ==
    /\ op.name \in CollectorQueries
    /\ result.kind = "raised"
    /\ DOMAIN active_requests # {}
    /\ history_file.kind # "array"

(***************************************************************************)
(* clear() (checked under SpecCollector)                                   *)
(***************************************************************************)
\* clear() leaves the collector as __init__ does, and generate_report() on
\* that state fails with the no-metrics error
ClearResets ==
    op'.name = "clear" =>
        /\ metrics' = <<>>
        /\ active_requests' = EmptyDict
        /\ request_counter' = 0
        /\ generate_report(metrics') = NoMetricsError

\* the request of handle h was in flight when clear() ran: the handle was
\* never ended, and its id is out of the in-flight map or was issued again
Discarded(h) ==
    /\ endCount[h] = 0
    /\ \/ handles[h] \notin DOMAIN active_requests
       \/ \E later \in (h + 1)..Len(handles) : handles[later] = handles[h]

\* end() through a discarded handle does not succeed
DiscardedEndFails ==
    \A h \in 1..Len(handles) : Discarded(h) => endCount'[h] = endCount[h]

\* a discarded request is not in the finalized list (told by its id, for the
\* handles whose id no other handle carries)
DiscardedNotFinalized ==
    \A h \in 1..Len(handles) :
        (Discarded(h) /\ \A other \in 1..Len(handles) \ {h} : handles[other] # handles[h])
            => TimesFinalized(handles[h]) = 0

\* C29: clear() returns the collector to its initial state (finalized list
\* empty, in-flight map empty, counter 0), so generate_report() right after
\* it fails with the no-metrics error; requests in flight when clear() ran are
\* discarded: ending one of their handles afterwards fails as 'not found', and
\* they never appear in the finalized list of the new run, whatever requests
\* are started after the clear.
C29_ClearDiscardsInFlight ==
    /\ [][ClearResets /\ DiscardedEndFails]_vars
    /\ []DiscardedNotFinalized

\* the part of C29 about the state clear() leaves
C29_ClearResetsCollector ==
    [][ClearResets]_vars

(***************************************************************************)
(* generate_dashboard() (checked under SpecDashboard)                      *)
(***************************************************************************)
DashboardCalled == op.name = "generate_dashboard"

\* what the claim has generate_dashboard() return
DashboardAsStated ==
    /\ result.kind = "returned"
    /\ IF regression_baseline(history_file, thresholds) = None \/ History = <<>>
       THEN result.value = InsufficientData
       ELSE result.value.sections = <<"Latest Run", "Current Status", "Baseline", "Alerts">>

\* C30: generate_dashboard() returns a text for every readable history and
\* never fails: the 'insufficient data' message when no baseline is available
\* or the history is empty, and otherwise the dashboard with the sections
\* Latest Run, Current Status, Baseline and Alerts, for any latest run,
\* including one with total_tests = 0.
C30_DashboardNeverFails ==
    (DashboardCalled /\ history_file.kind = "array") => DashboardAsStated

\* the same when the latest run has tests and check_for_regressions() returns
C30_DashboardOfRunWithTests ==
    (/\ DashboardCalled
     /\ history_file.kind = "array"
     /\ History # <<>> => Latest.total_tests > 0
     /\ check_for_regressions(history_file, thresholds).kind = "returned")
        => DashboardAsStated

\* the division of line 446 has failed although check_for_regressions() returns
C30_FailedOnRunWithoutTests ==
    /\ DashboardCalled
    /\ result.kind = "raised"
    /\ Latest.total_tests = 0
    /\ check_for_regressions(history_file, thresholds).kind = "returned"

====
